---- MODULE Spec2Model ----
(***************************************************************************)
(* Derived-field calculator of the dynamic form builder                    *)
(* (src/src/services/DerivedFieldCalculator.ts): the expression sandbox,   *)
(* the dependency resolver and updateDerivedFields, as operators over      *)
(* JavaScript values, and the callers' state as a state machine.           *)
(***************************************************************************)
EXTENDS Integers, Sequences, FiniteSets, TLC

VARIABLES
    schema,      \* FormSchema.fields: the sequence of FormField records
    declared,    \* the fields as the caller built them and last changed them
    values,      \* the caller's value map (a function from the present keys)
    clock,       \* the host's clock in ms, what Date.now() returns
    op,          \* the last operation that ran
    arg,         \* the value map as it was when the last call was made
    ret,         \* what the last call returned
    prev,        \* op, arg and ret of the call before the last one
    form         \* the state of the form session that shows the schema

vars == <<schema, declared, values, clock, op, arg, ret, prev, form>>

(***************************************************************************)
(* Bounds of the model.                                                    *)
(***************************************************************************)
\* longest parentFields list of a derived field
MaxParents == 2
\* most parent ids that the parentFields lists of a schema hold together
MaxEdges == 2
\* most derived fields of a schema whose logic is not the default one
MaxCustomLogic == 1
\* the host clock runs from 0 to MaxClock
MaxClock == 1
\* most rules that the author gives a field in the rule editor
MaxRules == 3
\* longest parentFields list of a schema whose passes are repeated; such a
\* schema has at most one derived field more
MaxRepeatParents == 1

(***************************************************************************)
(* JavaScript values.                                                      *)
(***************************************************************************)
Num(n) == [t |-> "number", n |-> n]
NaN == [t |-> "NaN"]
Str(s) == [t |-> "string", s |-> s]
Bool(b) == [t |-> "boolean", b |-> b]
Null == [t |-> "null"]
Undef == [t |-> "undefined"]
Arr(items) == [t |-> "array", items |-> items]
Obj(members) == [t |-> "object", members |-> members]
Fn(name) == [t |-> "function", name |-> name]
DateObj(ms) == [t |-> "date", ms |-> ms]

\* typeof v
TypeOf(v) ==
    CASE v.t \in {"number", "NaN"} -> "number"
      [] v.t = "string" -> "string"
      [] v.t = "boolean" -> "boolean"
      [] v.t = "undefined" -> "undefined"
      [] v.t = "function" -> "function"
      [] OTHER -> "object"

\* String(v) of a primitive
PrimToStr(v) ==
    CASE v.t = "number" -> ToString(v.n)
      [] v.t = "NaN" -> "NaN"
      [] v.t = "string" -> v.s
      [] v.t = "boolean" -> (IF v.b THEN "true" ELSE "false")
      [] v.t = "null" -> "null"
      [] v.t = "undefined" -> "undefined"
      [] OTHER -> "[object Object]"

RECURSIVE JoinItems(_, _)
\* Array.prototype.join(","), from element i on: null and undefined give ""
JoinItems(items, i) ==
    IF i > Len(items) THEN ""
    ELSE LET x == items[i]
             s == IF x.t \in {"null", "undefined"} THEN ""
                  ELSE IF x.t = "array" THEN "[array]"
                  ELSE IF x.t = "function" THEN "function"
                  ELSE PrimToStr(x)
         IN  s \o (IF i < Len(items) THEN "," ELSE "") \o JoinItems(items, i + 1)

\* ToPrimitive(v): an object becomes its string
ToPrimitive(v) ==
    CASE v.t = "array" -> Str(JoinItems(v.items, 1))
      [] v.t = "object" -> Str("[object Object]")
      [] v.t = "function" -> Str("function")
      [] v.t = "date" -> Str("date")
      [] OTHER -> v

\* ToNumber(v) of a non-string primitive
ToNumber(v) ==
    CASE v.t = "number" -> v
      [] v.t = "null" -> Num(0)
      [] v.t = "boolean" -> Num(IF v.b THEN 1 ELSE 0)
      [] OTHER -> NaN

\* l + r
Plus(l, r) ==
    LET pl == ToPrimitive(l)
        pr == ToPrimitive(r)
    IN  IF pl.t = "string" \/ pr.t = "string"
        THEN Str(PrimToStr(pl) \o PrimToStr(pr))
        ELSE LET nl == ToNumber(pl)
                 nr == ToNumber(pr)
             IN  IF nl.t = "NaN" \/ nr.t = "NaN" THEN NaN ELSE Num(nl.n + nr.n)

\* l - r; of the strings of the model only the empty one is numeric
Minus(l, r) ==
    LET pl == ToPrimitive(l)
        pr == ToPrimitive(r)
        nl == IF pl = Str("") THEN Num(0) ELSE ToNumber(pl)
        nr == IF pr = Str("") THEN Num(0) ELSE ToNumber(pr)
    IN  IF nl.t = "NaN" \/ nr.t = "NaN" THEN NaN ELSE Num(nl.n - nr.n)

(***************************************************************************)
(* Expressions.  computationLogic is a string; the model carries with the  *)
(* text what the code's regular expressions and its character loop read    *)
(* off it (the whole words, the bracket-string pattern, the parentheses in *)
(* order) and the syntax tree the JavaScript engine builds from it.        *)
(***************************************************************************)
Expr(text, words, parens, ast) ==
    [text |-> text, words |-> words, bracketString |-> FALSE,
     parens |-> parens, ast |-> ast, isString |-> TRUE]

Lit(v) == [k |-> "lit", v |-> v]
Id(name) == [k |-> "id", name |-> name]
Add(l, r) == [k |-> "plus", l |-> l, r |-> r]
Sub(l, r) == [k |-> "minus", l |-> l, r |-> r]
Member(obj, prop) == [k |-> "member", obj |-> obj, prop |-> prop]
Call(obj, prop) == [k |-> "call", obj |-> obj, prop |-> prop]
ObjLit == [k |-> "objlit"]
ArrLit(items) == [k |-> "arrlit", items |-> items]
New(name) == [k |-> "new", name |-> name]
NoTree == [k |-> "none"]

RECURSIVE Rep(_, _)
Rep(s, n) == IF n = 0 THEN "" ELSE s \o Rep(s, n - 1)

\* x
ERef(x) == Expr(x, {x}, <<>>, Id(x))
\* x+1
EInc(x) == Expr(x \o "+1", {x}, <<>>, Add(Id(x), Lit(Num(1))))
\* x+x
EDouble(x) == Expr(x \o "+" \o x, {x}, <<>>, Add(Id(x), Id(x)))
\* field-n, the text of an id that the editors give a field: the engine
\* reads it as a difference
EFieldMinus(n) ==
    Expr("field-" \o ToString(n), {"field", ToString(n)}, <<>>,
         Sub(Id("field"), Lit(Num(n))))
\* 1+1
EOnePlusOne == Expr("1+1", {}, <<>>, Add(Lit(Num(1)), Lit(Num(1))))
\* the empty computationLogic
EEmpty == Expr("", {}, <<>>, NoTree)
\* process.exit()
EProcessExit == Expr("process.exit()", {"process", "exit"}, <<"(", ")">>,
                     Call("process", "exit"))
\* this.constructor
EThisConstructor == Expr("this.constructor", {"this", "constructor"}, <<>>,
                         Member("this", "constructor"))
\* 1+1+...+1, 501 characters
ELong == Expr(Rep("1+", 250) \o "1", {}, <<>>, Lit(Num(251)))
\* (1+1
EUnbalanced == Expr("(1+1", {}, <<"(">>, NoTree)
\* )1+1(
EClosedFirst == Expr(")1+1(", {}, <<")", "(">>, NoTree)
\* undefinedName: an identifier nothing binds
EUnbound == Expr("undefinedName", {"undefinedName"}, <<>>, Id("undefinedName"))
\* ({})
EObject == Expr("({})", {}, <<"(", ")">>, ObjLit)
\* Math.abs
EMathAbs == Expr("Math.abs", {"Math", "abs"}, <<>>, Member("Math", "abs"))
\* Date.now()
EDateNow == Expr("Date.now()", {"Date", "now"}, <<"(", ")">>, Call("Date", "now"))
\* the number 42 as computationLogic: no string
ENotAString == [Expr("42", {}, <<>>, Lit(Num(42))) EXCEPT !.isString = FALSE]
\* eval()
EEval == Expr("eval()", {"eval"}, <<"(", ")">>, Call("globalThis", "eval"))
\* new Date
ENewDate == Expr("new Date", {"new", "Date"}, <<>>, New("Date"))
\* x["k"]
EBracket(x) ==
    [Expr(x \o "[\"k\"]", {x, "k"}, <<>>, Member(x, "k"))
        EXCEPT !.bracketString = TRUE]
\* console.log()
EConsoleLog == Expr("console.log()", {"console", "log"}, <<"(", ")">>,
                    Call("console", "log"))
\* [1, x]
EArrayOfPrimitives(x) ==
    Expr("[1," \o x \o "]", {"1", x}, <<>>, ArrLit(<<Lit(Num(1)), Id(x)>>))
\* [Math.abs]
EArrayOfFunction ==
    Expr("[Math.abs]", {"Math", "abs"}, <<>>, ArrLit(<<Member("Math", "abs")>>))
\* [{}]
EArrayOfObject == Expr("[{}]", {}, <<>>, ArrLit(<<ObjLit>>))
\* [[1]]
ENestedArray == Expr("[[1]]", {"1"}, <<>>, ArrLit(<<ArrLit(<<Lit(Num(1))>>)>>))

(***************************************************************************)
(* Results of calls that may throw.                                        *)
(***************************************************************************)
Return(v) == [threw |-> FALSE, message |-> "", value |-> v]
Throw(m) == [threw |-> TRUE, message |-> m, value |-> Undef]

(***************************************************************************)
(* validateExpression: the deny-list, the length ceiling, the parentheses. *)
(***************************************************************************)
\* the whole words of dangerousPatterns (\bword\b)
DangerousWords ==
    {"eval", "Function", "setTimeout", "setInterval", "setImmediate", "require",
     "import", "export", "process", "global", "window", "document",
     "localStorage", "sessionStorage", "fetch", "XMLHttpRequest", "__proto__",
     "constructor", "prototype", "this", "delete", "void", "typeof",
     "instanceof", "in", "with", "try", "catch", "finally", "throw", "for",
     "while", "do", "switch", "case", "break", "continue", "return", "var",
     "let", "const", "class", "extends", "static", "yield", "async", "await",
     "new"}

\* some pattern of dangerousPatterns matches the expression; in the
\* expressions of the model the three patterns \.\s*constructor,
\* \.\s*__proto__ and \.\s*prototype match only where the whole-word
\* patterns of the same names already do
MatchesDangerousPattern(expression) ==
    \/ expression.words \cap DangerousWords # {}
    \/ expression.bracketString

MaxExpressionLength == 500

RECURSIVE ParenLoop(_, _, _)
\* the loop over the characters of the expression, of which only "(" and ")"
\* change parenCount: TRUE when it ends without throwing and with parenCount 0
ParenLoop(parens, i, parenCount) ==
    IF i > Len(parens) THEN parenCount = 0
    ELSE LET n == IF parens[i] = "(" THEN parenCount + 1 ELSE parenCount - 1
         IN  IF n < 0 THEN FALSE ELSE ParenLoop(parens, i + 1, n)

validateExpression(expression) ==
    IF MatchesDangerousPattern(expression)
    THEN Throw("Expression contains forbidden pattern")
    ELSE IF Len(expression.text) > MaxExpressionLength
    THEN Throw("Expression is too long (maximum 500 characters)")
    ELSE IF ~ParenLoop(expression.parens, 1, 0)
    THEN Throw("Unbalanced parentheses in expression")
    ELSE Return(Undef)

(***************************************************************************)
(* validateResult.                                                         *)
(***************************************************************************)
validateResult(result) ==
    IF result.t \in {"null", "undefined"} THEN Return(result)
    ELSE IF TypeOf(result) \in {"string", "number", "boolean"} THEN Return(result)
    ELSE IF result.t = "date" THEN Return(result)
    ELSE IF result.t = "array"
    THEN IF \E i \in 1..Len(result.items) :
                TypeOf(result.items[i]) = "object" /\ result.items[i].t # "null"
         THEN Throw("Complex objects not allowed in derived field results")
         ELSE Return(Arr(result.items))
    ELSE IF TypeOf(result) = "object"
    THEN Throw("Complex objects not allowed in derived field results")
    ELSE IF TypeOf(result) = "function"
    THEN Throw("Functions not allowed in derived field results")
    ELSE Return(result)

(***************************************************************************)
(* createSafeContext.                                                      *)
(***************************************************************************)
Range(seq) == {seq[i] : i \in 1..Len(seq)}

MathNamespace == Obj({"abs", "ceil", "floor", "max", "min", "round", "pow", "sqrt"})
StringNamespace == Obj({"concat", "toLowerCase", "toUpperCase", "trim", "substring"})
NumberNamespace == Obj({"parseFloat", "parseInt", "isNaN"})

\* formValues[key], undefined for a key the map does not hold
Lookup(formValues, key) ==
    IF key \in DOMAIN formValues THEN formValues[key] ELSE Undef

createSafeContext(parentFields, formValues) ==
    [key \in Range(parentFields) \cup {"Math", "String", "Number"} |->
        CASE key = "Math" -> MathNamespace
          [] key = "String" -> StringNamespace
          [] key = "Number" -> NumberNamespace
          [] OTHER -> Lookup(formValues, key)]

(***************************************************************************)
(* The function that new Function(...contextKeys, functionBody) builds and *)
(* its call: parameters are the context's keys, every other identifier is  *)
(* looked up in the host's global scope.                                   *)
(***************************************************************************)
\* keys that are no identifier: the ids `field-${Date.now()}` of the editors
NonIdentifierKeys == {"field-1", "field-2", "field-3"}
IsIdentifierName(key) == key \notin NonIdentifierKeys

\* the globals of the host that the model knows
HostGlobals == {"Date", "JSON", "Object", "console", "globalThis", "undefined"}
HostValue(name) ==
    CASE name = "Date" -> Fn("Date")
      [] name = "Object" -> Fn("Object")
      [] name = "JSON" -> Obj({"parse", "stringify"})
      [] name = "console" -> Obj({"log"})
      [] name = "globalThis" -> Obj(HostGlobals \cup {"eval"})
      [] OTHER -> Undef

\* the identifier `name` in the function's scope
ResolveIdentifier(name, context) ==
    IF name \in DOMAIN context THEN Return(context[name])
    ELSE IF name \in HostGlobals THEN Return(HostValue(name))
    ELSE Throw(name \o " is not defined")

\* v.prop
GetMember(v, prop) ==
    IF v.t \in {"null", "undefined"}
    THEN Throw("Cannot read properties of " \o v.t)
    ELSE IF v.t = "object" /\ prop \in v.members THEN Return(Fn(prop))
    ELSE IF v.t = "function" /\ v.name = "Date" /\ prop = "now"
    THEN Return(Fn("Date.now"))
    ELSE Return(Undef)

\* f() with no arguments
CallFunction(f, now) ==
    IF f.t # "function" THEN Throw("is not a function")
    ELSE IF f.name = "Date.now" THEN Return(Num(now))
    ELSE IF f.name \in {"log", "eval"} THEN Return(Undef)
    ELSE Return(NaN)

RECURSIVE Evaluate(_, _, _)
RECURSIVE EvaluateItems(_, _, _, _)
\* the value of the expression tree, or what it throws
Evaluate(ast, context, now) ==
    CASE ast.k = "lit" -> Return(ast.v)
      [] ast.k = "id" -> ResolveIdentifier(ast.name, context)
      [] ast.k = "plus" ->
            LET l == Evaluate(ast.l, context, now)
            IN  IF l.threw THEN l
                ELSE LET r == Evaluate(ast.r, context, now)
                     IN  IF r.threw THEN r ELSE Return(Plus(l.value, r.value))
      [] ast.k = "minus" ->
            LET l == Evaluate(ast.l, context, now)
            IN  IF l.threw THEN l
                ELSE LET r == Evaluate(ast.r, context, now)
                     IN  IF r.threw THEN r ELSE Return(Minus(l.value, r.value))
      [] ast.k = "member" ->
            LET o == ResolveIdentifier(ast.obj, context)
            IN  IF o.threw THEN o ELSE GetMember(o.value, ast.prop)
      [] ast.k = "call" ->
            LET o == ResolveIdentifier(ast.obj, context)
            IN  IF o.threw THEN o
                ELSE LET f == GetMember(o.value, ast.prop)
                     IN  IF f.threw THEN f ELSE CallFunction(f.value, now)
      [] ast.k = "objlit" -> Return(Obj({}))
      [] ast.k = "new" ->
            LET c == ResolveIdentifier(ast.name, context)
            IN  IF c.threw THEN c
                ELSE IF c.value.t = "function" /\ c.value.name = "Date"
                THEN Return(DateObj(now))
                ELSE Throw(ast.name \o " is not a constructor")
      [] ast.k = "arrlit" -> EvaluateItems(ast.items, 1, context, now)
      [] OTHER -> Throw("Unexpected token")

EvaluateItems(items, i, context, now) ==
    IF i > Len(items) THEN Return(Arr(<<>>))
    ELSE LET x == Evaluate(items[i], context, now)
         IN  IF x.threw THEN x
             ELSE LET rest == EvaluateItems(items, i + 1, context, now)
                  IN  IF rest.threw THEN rest
                      ELSE Return(Arr(<<x.value>> \o rest.value.items))

\* new Function(...contextKeys, functionBody) and func(...contextValues):
\* a SyntaxError when a key is no identifier or the text is no expression;
\* the body's own try/catch rewraps what the expression throws
RunFunction(expression, context, now) ==
    IF \E key \in DOMAIN context : ~IsIdentifierName(key)
    THEN Throw("Unexpected token")
    ELSE IF expression.ast.k = "none"
    THEN Throw("Unexpected token")
    ELSE LET r == Evaluate(expression.ast, context, now)
         IN  IF r.threw
             THEN Throw("Expression evaluation failed: " \o r.message)
             ELSE r

(***************************************************************************)
(* safeEvaluate: result value or exception, and `ran`: whether a function  *)
(* was built from the expression.                                          *)
(***************************************************************************)
\* } catch (error) { throw new Error(`Expression evaluation error: ...`) }
\* around v, what the try block gave
safeEvaluateCatch(v) ==
    IF v.threw
    THEN [threw |-> TRUE,
          message |-> "Expression evaluation error: " \o v.message,
          value |-> Undef, ran |-> TRUE]
    ELSE [threw |-> FALSE, message |-> "", value |-> v.value, ran |-> TRUE]

\* return this.validateResult(result), for r what func(...contextValues) gave
safeEvaluateResult(r) == IF r.threw THEN r ELSE validateResult(r.value)

\* a safeEvaluate that builds and runs the function whatever
\* validateExpression gave
safeEvaluateChecked_IgnoresCheck(checked, expression, context, now) ==
    safeEvaluateCatch(
        safeEvaluateResult(RunFunction(expression, context, now)))

\* the rest of safeEvaluate after this.validateExpression(expression) gave
\* checked
safeEvaluateChecked(checked, expression, context, now) ==
    IF checked.threw
    THEN [threw |-> TRUE, message |-> checked.message, value |-> Undef,
          ran |-> FALSE]
    ELSE safeEvaluateCatch(
             safeEvaluateResult(RunFunction(expression, context, now)))

safeEvaluate(expression, context, now) ==
    safeEvaluateChecked(validateExpression(expression), expression, context,
                        now)

(***************************************************************************)
(* Fields.  A FormField is [id, derivedFrom]; derivedFrom is <<>> (absent) *)
(* or <<config>> with config = [parentFields, computationLogic].           *)
(***************************************************************************)
PlainField(id) == [id |-> id, derivedFrom |-> <<>>]
DerivedField(id, parentFields, computationLogic) ==
    [id |-> id,
     derivedFrom |-> <<[parentFields |-> parentFields,
                        computationLogic |-> computationLogic]>>]
HasDerivedFrom(field) == field.derivedFrom # <<>>

\* schema.fields.filter(field => field.derivedFrom)
derivedFieldsOf(fields) == SelectSeq(fields, HasDerivedFrom)

FieldIdsOf(fields) == {fields[i].id : i \in 1..Len(fields)}

\* the map with map[key] = v
MapSet(map, key, v) ==
    [x \in DOMAIN map \cup {key} |-> IF x = key THEN v ELSE map[x]]
EmptyMap == [x \in {} |-> Undef]

RECURSIVE JoinStrings(_, _)
\* strings.join(", ") from element i on
JoinStrings(strings, i) ==
    IF i > Len(strings) THEN ""
    ELSE strings[i] \o (IF i < Len(strings) THEN ", " ELSE "")
            \o JoinStrings(strings, i + 1)

(***************************************************************************)
(* computeValue.                                                           *)
(***************************************************************************)
DerivedFieldError(type, message) == [type |-> type, message |-> message]

\* what a computeValue call gives: it returns {value, error?} (error is <<>>
\* or <<error>>) or throws; read: the context the expression was run in
\* (<<>> when none was built)
Computed(value, error, read) ==
    [threw |-> FALSE, message |-> "", value |-> value, error |-> error,
     read |-> read]
Thrown(message, read) ==
    [threw |-> TRUE, message |-> message, value |-> Undef, error |-> <<>>,
     read |-> read]

\* a filter on the parent's value instead of its presence as a key
missingParents_ByValue(config, formValues) ==
    SelectSeq(config.parentFields,
              LAMBDA parentId : Lookup(formValues, parentId).t \in {"null", "undefined"})

missingParents(config, formValues) ==
    SelectSeq(config.parentFields, LAMBDA parentId : parentId \notin DOMAIN formValues)

\* return { value: result }, for result what safeEvaluate gave in context
computeValueReturn(result, context) ==
    IF result.threw
    THEN Thrown(result.message, <<context>>)
    ELSE Computed(result.value, <<>>, <<context>>)

\* const result = this.safeEvaluate(config.computationLogic, context)
computeValueInContext(config, context, now) ==
    computeValueReturn(safeEvaluate(config.computationLogic, context, now),
                       context)

\* the try block of computeValue
computeValueTry(config, formValues, now) ==
    IF Len(missingParents(config, formValues)) > 0
    THEN Computed(Null,
                  <<DerivedFieldError("missing_parent",
                        "Missing parent field values: "
                            \o JoinStrings(missingParents(config, formValues), 1))>>,
                  <<>>)
    ELSE IF \/ config.computationLogic.text = ""
            \/ ~config.computationLogic.isString
    THEN Computed(Null,
                  <<DerivedFieldError("invalid_expression",
                        "Computation logic must be a non-empty string")>>,
                  <<>>)
    ELSE computeValueInContext(
             config, createSafeContext(config.parentFields, formValues), now)

\* computeValue without its catch
computeValue_NoCatch(config, formValues, now) ==
    computeValueTry(config, formValues, now)

\* the catch of computeValue around r, what the try block gave
computeValueCatch(r) ==
    IF r.threw
    THEN Computed(Null, <<DerivedFieldError("evaluation_error", r.message)>>,
                  r.read)
    ELSE r

\* computeValue: the try block and its catch
computeValue(config, formValues, now) ==
    computeValueCatch(computeValueTry(config, formValues, now))

(***************************************************************************)
(* detectCircularDependencies.                                             *)
(***************************************************************************)
\* derivedFields.find(f => f.id === id): the index of the first, 0 for none
FindField(derivedFields, id) ==
    IF \E i \in 1..Len(derivedFields) : derivedFields[i].id = id
    THEN CHOOSE i \in 1..Len(derivedFields) :
            /\ derivedFields[i].id = id
            /\ \A j \in 1..(i - 1) : derivedFields[j].id # id
    ELSE 0

\* the two sets of the traversal and what hasCycle returns
CycleState(found, visited, recursionStack) ==
    [found |-> found, visited |-> visited, recursionStack |-> recursionStack]

RECURSIVE hasCycle(_, _, _)
RECURSIVE hasCycleParents(_, _, _, _)
\* hasCycle without recursionStack.delete(fieldId)
hasCycle_KeepsStack(derivedFields, fieldId, st) ==
    IF fieldId \in st.recursionStack
    THEN CycleState(TRUE, st.visited, st.recursionStack)
    ELSE IF fieldId \in st.visited
    THEN CycleState(FALSE, st.visited, st.recursionStack)
    ELSE LET entered == CycleState(FALSE, st.visited \cup {fieldId},
                                   st.recursionStack \cup {fieldId})
             f == FindField(derivedFields, fieldId)
         IN  IF f # 0 /\ HasDerivedFrom(derivedFields[f])
             THEN hasCycleParents(derivedFields,
                      derivedFields[f].derivedFrom[1].parentFields, 1, entered)
             ELSE entered

hasCycle(derivedFields, fieldId, st) ==
    IF fieldId \in st.recursionStack
    THEN CycleState(TRUE, st.visited, st.recursionStack)
    ELSE IF fieldId \in st.visited
    THEN CycleState(FALSE, st.visited, st.recursionStack)
    ELSE LET entered == CycleState(FALSE, st.visited \cup {fieldId},
                                   st.recursionStack \cup {fieldId})
             f == FindField(derivedFields, fieldId)
             r == IF f # 0 /\ HasDerivedFrom(derivedFields[f])
                  THEN hasCycleParents(derivedFields,
                            derivedFields[f].derivedFrom[1].parentFields, 1, entered)
                  ELSE entered
         IN  IF r.found THEN r
             ELSE CycleState(FALSE, r.visited, r.recursionStack \ {fieldId})

\* the loop over field.derivedFrom.parentFields, from parent i on
hasCycleParents(derivedFields, parentFields, i, st) ==
    IF i > Len(parentFields) THEN st
    ELSE LET p == FindField(derivedFields, parentFields[i])
         IN  IF p # 0 /\ HasDerivedFrom(derivedFields[p])
             THEN LET r == hasCycle(derivedFields, parentFields[i], st)
                  IN  IF r.found THEN r
                      ELSE hasCycleParents(derivedFields, parentFields, i + 1, r)
             ELSE hasCycleParents(derivedFields, parentFields, i + 1, st)

RECURSIVE detectLoop(_, _, _)
\* the loop over derivedFields, from field i on: TRUE when a cycle is found
detectLoop(derivedFields, i, st) ==
    IF i > Len(derivedFields) THEN FALSE
    ELSE IF derivedFields[i].id \notin st.visited
    THEN LET r == hasCycle(derivedFields, derivedFields[i].id, st)
         IN  IF r.found THEN TRUE ELSE detectLoop(derivedFields, i + 1, r)
    ELSE detectLoop(derivedFields, i + 1, st)

\* <<>> for null, <<error>> for the error
detectCircularDependencies(derivedFields) ==
    IF detectLoop(derivedFields, 1, CycleState(FALSE, {}, {}))
    THEN <<DerivedFieldError("circular_dependency",
                             "Circular dependency detected in derived fields")>>
    ELSE <<>>

(***************************************************************************)
(* sortFieldsByDependencies.                                               *)
(***************************************************************************)
SortState(sorted, visited, temp) ==
    [sorted |-> sorted, visited |-> visited, temp |-> temp]

RECURSIVE visit(_, _, _)
RECURSIVE visitParents(_, _, _, _)
\* a visit that pushes the field before it visits the field's parents
visit_PushesFirst(derivedFields, field, st) ==
    IF field.id \in st.temp THEN st
    ELSE IF field.id \in st.visited THEN st
    ELSE LET entered == SortState(Append(st.sorted, field), st.visited,
                                  st.temp \cup {field.id})
             r == IF HasDerivedFrom(field)
                  THEN visitParents(derivedFields,
                            field.derivedFrom[1].parentFields, 1, entered)
                  ELSE entered
         IN  SortState(r.sorted, r.visited \cup {field.id}, r.temp \ {field.id})

visit(derivedFields, field, st) ==
    IF field.id \in st.temp THEN st
    ELSE IF field.id \in st.visited THEN st
    ELSE LET entered == SortState(st.sorted, st.visited, st.temp \cup {field.id})
             r == IF HasDerivedFrom(field)
                  THEN visitParents(derivedFields,
                            field.derivedFrom[1].parentFields, 1, entered)
                  ELSE entered
         IN  SortState(Append(r.sorted, field), r.visited \cup {field.id},
                       r.temp \ {field.id})

\* the loop over field.derivedFrom.parentFields, from parent i on
visitParents(derivedFields, parentFields, i, st) ==
    IF i > Len(parentFields) THEN st
    ELSE LET p == FindField(derivedFields, parentFields[i])
         IN  IF p # 0 /\ HasDerivedFrom(derivedFields[p])
             THEN visitParents(derivedFields, parentFields, i + 1,
                               visit(derivedFields, derivedFields[p], st))
             ELSE visitParents(derivedFields, parentFields, i + 1, st)

\* a sort that leaves the declaration order
sortFieldsByDependencies_DeclarationOrder(derivedFields) == derivedFields

RECURSIVE sortLoop(_, _, _)
\* the loop over derivedFields, from field i on
sortLoop(derivedFields, i, st) ==
    IF i > Len(derivedFields) THEN st
    ELSE IF derivedFields[i].id \notin st.visited
    THEN sortLoop(derivedFields, i + 1, visit(derivedFields, derivedFields[i], st))
    ELSE sortLoop(derivedFields, i + 1, st)

sortFieldsByDependencies(derivedFields) ==
    sortLoop(derivedFields, 1, SortState(<<>>, {}, {})).sorted

(***************************************************************************)
(* The dependency relation of a schema, stated on its own: an edge goes    *)
(* from a derived field to each of its parentFields that is a derived      *)
(* field of the schema.                                                    *)
(***************************************************************************)
DerivedIdsOf(fields) == FieldIdsOf(derivedFieldsOf(fields))
ParentsOf(fields, id) ==
    UNION {Range(fields[i].derivedFrom[1].parentFields) :
              i \in {j \in 1..Len(fields) :
                        fields[j].id = id /\ HasDerivedFrom(fields[j])}}
DependencyEdges(fields) ==
    {e \in DerivedIdsOf(fields) \X DerivedIdsOf(fields) :
        e[2] \in ParentsOf(fields, e[1])}
RECURSIVE PathsWithin(_, _)
\* the pairs joined by a path of 1 to n + 1 edges of R
PathsWithin(R, n) ==
    IF n = 0 THEN R
    ELSE LET T == PathsWithin(R, n - 1)
         IN  T \cup {<<x[1][1], x[2][2]>> : x \in {y \in T \X R : y[1][2] = y[2][1]}}
Ancestors(fields) == PathsWithin(DependencyEdges(fields), Len(fields))
HasDirectedCycle(fields) == \E id \in DerivedIdsOf(fields) : <<id, id>> \in Ancestors(fields)
PositionOf(fields, id) == FindField(fields, id)

(***************************************************************************)
(* updateDerivedFields.                                                    *)
(***************************************************************************)
\* no copy: updatedValues is the caller's object
spreadCopy_SameObject(formValues) == [map |-> formValues, sameObject |-> TRUE]

\* { ...formValues }: a new object with the entries of formValues
spreadCopy(formValues) == [map |-> formValues, sameObject |-> FALSE]

\* an error only for the fields that lie on a cycle
markAllCircular_OnlyCycleMembers(derivedFields, circularDependencyError) ==
    [id \in {x \in FieldIdsOf(derivedFields) : <<x, x>> \in Ancestors(derivedFields)}
        |-> circularDependencyError]

\* derivedFields.forEach(field => { errors[field.id] = circularDependencyError })
markAllCircular(derivedFields, circularDependencyError) ==
    [id \in FieldIdsOf(derivedFields) |-> circularDependencyError]

\* the working state of the loop over sortedDerivedFields: the two maps, and
\* for each field evaluated so far the keys updatedValues held when
\* computeValue was called for it (keys), the context its expression was run
\* in (reads) and the value its expression gave (computed)
LoopState(threw, updatedValues, errors, keys, reads, computed) ==
    [threw |-> threw, updatedValues |-> updatedValues, errors |-> errors,
     keys |-> keys, reads |-> reads, computed |-> computed]

\* if (result.error) errors[field.id] = {...result.error, fieldId: field.id}
\* else updatedValues[field.id] = result.value
\* an applyResult that also stores the value of a failed computeValue
applyResult_WritesOnError(st, field, result) ==
    LET reads == IF result.read = <<>> THEN st.reads
                 ELSE MapSet(st.reads, field.id, result.read[1])
        keys == MapSet(st.keys, field.id, DOMAIN st.updatedValues)
        errors == IF result.error # <<>>
                  THEN MapSet(st.errors, field.id,
                              [type |-> result.error[1].type,
                               message |-> result.error[1].message,
                               fieldId |-> field.id])
                  ELSE st.errors
    IN  LoopState(FALSE, MapSet(st.updatedValues, field.id, result.value),
                  errors, keys, reads,
                  IF result.error # <<>> THEN st.computed
                  ELSE MapSet(st.computed, field.id, result.value))

\* an applyResult that stores a computed value only under an id that has no
\* entry yet
applyResult_KeepsExisting(st, field, result) ==
    LET reads == IF result.read = <<>> THEN st.reads
                 ELSE MapSet(st.reads, field.id, result.read[1])
        keys == MapSet(st.keys, field.id, DOMAIN st.updatedValues)
    IN  IF result.error # <<>>
        THEN LoopState(FALSE, st.updatedValues,
                 MapSet(st.errors, field.id,
                        [type |-> result.error[1].type,
                         message |-> result.error[1].message,
                         fieldId |-> field.id]),
                 keys, reads, st.computed)
        ELSE LoopState(FALSE,
                 IF field.id \in DOMAIN st.updatedValues THEN st.updatedValues
                 ELSE MapSet(st.updatedValues, field.id, result.value),
                 st.errors, keys, reads,
                 MapSet(st.computed, field.id, result.value))

applyResult(st, field, result) ==
    LET reads == IF result.read = <<>> THEN st.reads
                 ELSE MapSet(st.reads, field.id, result.read[1])
        keys == MapSet(st.keys, field.id, DOMAIN st.updatedValues)
    IN  IF result.error # <<>>
        THEN LoopState(FALSE, st.updatedValues,
                 MapSet(st.errors, field.id,
                        [type |-> result.error[1].type,
                         message |-> result.error[1].message,
                         fieldId |-> field.id]),
                 keys, reads, st.computed)
        ELSE LoopState(FALSE, MapSet(st.updatedValues, field.id, result.value),
                 st.errors, keys, reads,
                 MapSet(st.computed, field.id, result.value))

RECURSIVE computeLoop(_, _, _, _)
\* the body of the loop for field i, for result what computeValue gave, and
\* the iterations after it
computeLoopBody(sortedDerivedFields, i, st, result, now) ==
    IF result.threw
    THEN LoopState(TRUE, st.updatedValues, st.errors, st.keys, st.reads,
                   st.computed)
    ELSE computeLoop(sortedDerivedFields, i + 1,
                     applyResult(st, sortedDerivedFields[i], result), now)

\* a loop that ends at the first field whose computeValue gives an error
computeLoop_StopsAtError(sortedDerivedFields, i, st, now) ==
    IF i > Len(sortedDerivedFields) THEN st
    ELSE LET field == sortedDerivedFields[i]
             result == computeValue(field.derivedFrom[1], st.updatedValues, now)
         IN  IF result.threw
             THEN LoopState(TRUE, st.updatedValues, st.errors, st.keys,
                            st.reads, st.computed)
             ELSE IF result.error # <<>>
             THEN applyResult(st, field, result)
             ELSE computeLoop(sortedDerivedFields, i + 1,
                              applyResult(st, field, result), now)

\* for (const field of sortedDerivedFields), from field i on; an exception
\* that computeValue lets out ends the loop and the call
computeLoop(sortedDerivedFields, i, st, now) ==
    IF i > Len(sortedDerivedFields) THEN st
    ELSE IF ~HasDerivedFrom(sortedDerivedFields[i])
    THEN computeLoop(sortedDerivedFields, i + 1, st, now)
    ELSE computeLoopBody(sortedDerivedFields, i, st,
             computeValue(sortedDerivedFields[i].derivedFrom[1],
                          st.updatedValues, now),
             now)

\* what the call gives: threw (an exception reached the caller), the returned
\* values and errors, distinct (the returned map is another object than the
\* one passed in), callerValues (the caller's map after the call), and of the
\* pass itself: cyclic, order (the ids of sortedDerivedFields), keys, reads,
\* computed
\* return { values: formValues, errors } of the cycle path
cyclicResult(formValues, copy, derivedFields, circularDependencyError) ==
    [threw |-> FALSE, values |-> copy.map,
     errors |-> markAllCircular(derivedFields, circularDependencyError),
     distinct |-> ~copy.sameObject, callerValues |-> formValues,
     cyclic |-> TRUE, order |-> <<>>, keys |-> EmptyMap, reads |-> EmptyMap,
     computed |-> EmptyMap]

\* return { values: updatedValues, errors } after the loop ended in done
loopResult(formValues, copy, sortedDerivedFields, done) ==
    [threw |-> done.threw, values |-> done.updatedValues,
     errors |-> done.errors, distinct |-> ~copy.sameObject,
     callerValues |-> IF copy.sameObject THEN done.updatedValues
                      ELSE formValues,
     cyclic |-> FALSE,
     order |-> [i \in 1..Len(sortedDerivedFields) |-> sortedDerivedFields[i].id],
     keys |-> done.keys, reads |-> done.reads, computed |-> done.computed]

\* the loop over sortedDerivedFields and the return after it
evaluateSorted(formValues, copy, sortedDerivedFields, now) ==
    loopResult(formValues, copy, sortedDerivedFields,
               computeLoop(sortedDerivedFields, 1,
                           LoopState(FALSE, copy.map, EmptyMap, EmptyMap,
                                     EmptyMap, EmptyMap),
                           now))

\* the call from the cycle check on
afterDetection(formValues, copy, derivedFields, circularDependencyError, now) ==
    IF circularDependencyError # <<>>
    THEN cyclicResult(formValues, copy, derivedFields,
                      circularDependencyError[1])
    ELSE evaluateSorted(formValues, copy,
                        sortFieldsByDependencies(derivedFields), now)

updateDerivedFields(formValues, fields, now) ==
    afterDetection(formValues, spreadCopy(formValues), derivedFieldsOf(fields),
                   detectCircularDependencies(derivedFieldsOf(fields)), now)

(***************************************************************************)
(* The inputs: schemas of three fields, each plain or derived, and value   *)
(* maps over their ids.                                                    *)
(***************************************************************************)
FieldIds == <<"a", "b", "c">>
NumFields == Len(FieldIds)
\* what a parentFields list may name: the fields, and an id of no field
ParentIds == Range(FieldIds) \cup {"nonexistent"}
ParentLists == UNION {[1..n -> ParentIds] : n \in 0..MaxParents}

\* a dependency graph: for each field "plain" or its parentFields list
Graphs ==
    {g \in [1..NumFields -> {<<"plain">>} \cup {<<"derived", p>> : p \in ParentLists}] :
        TRUE}
EdgesOf(g, i) == IF g[i][1] = "plain" THEN 0 ELSE Len(g[i][2])
RECURSIVE TotalEdges(_, _)
TotalEdges(g, i) == IF i > NumFields THEN 0 ELSE EdgesOf(g, i) + TotalEdges(g, i + 1)
DerivedPositions(g) == {i \in 1..NumFields : g[i][1] = "derived"}

\* the computationLogic texts of the model, by kind, for a parentFields list
LogicKinds ==
    {"default", "empty", "forbidden", "long", "unbalanced", "unbound", "object",
     "now"}
LogicOf(kind, parentFields) ==
    CASE kind = "default" ->
            (IF Len(parentFields) > 0 THEN EInc(parentFields[1]) ELSE EOnePlusOne)
      [] kind = "empty" -> EEmpty
      [] kind = "forbidden" -> EProcessExit
      [] kind = "long" -> ELong
      [] kind = "unbalanced" -> EUnbalanced
      [] kind = "unbound" -> EUnbound
      [] kind = "object" -> EObject
      [] kind = "now" -> EDateNow
      [] OTHER -> EEmpty

\* the schema of graph g whose derived field i has the logic of kind logic[i]
SchemaOf(g, logic) ==
    [i \in 1..NumFields |->
        IF g[i][1] = "plain" THEN PlainField(FieldIds[i])
        ELSE DerivedField(FieldIds[i], g[i][2], LogicOf(logic[i], g[i][2]))]

\* a plain field holds a number, the seeded "", null or undefined, or has no
\* entry; a derived field
\* holds what an earlier pass or the caller left there, or has no entry
StaleValue == Num(7)
PlainValues == {Num(2), Str(""), Null, Undef}
ValueChoices(field) ==
    IF HasDerivedFrom(field) THEN {StaleValue} ELSE PlainValues
ValueMapsOf(fields) ==
    UNION {{m \in [keys -> PlainValues \cup {StaleValue}] :
                \A k \in keys : \E i \in 1..Len(fields) :
                    fields[i].id = k /\ m[k] \in ValueChoices(fields[i])} :
           keys \in SUBSET FieldIdsOf(fields)}

NoCall == [none |-> TRUE]
\* no form session shows the schema
NoForm == [none |-> TRUE]

(***************************************************************************)
(* Spec: one pass over every schema and value map of the bounds.           *)
(***************************************************************************)
Init ==
    /\ \E g \in Graphs :
          /\ TotalEdges(g, 1) <= MaxEdges
          /\ \E logic \in [DerivedPositions(g) -> LogicKinds] :
                /\ Cardinality({i \in DOMAIN logic : logic[i] # "default"})
                        <= MaxCustomLogic
                /\ schema = SchemaOf(g, logic)
    /\ values \in ValueMapsOf(schema)
    /\ clock = 0
    /\ op = "init"
    /\ arg = EmptyMap
    /\ ret = NoCall
    /\ prev = NoCall
    /\ declared = schema
    /\ form = NoForm

\* the caller runs updateDerivedFields(values, schema)
Recompute ==
    /\ op = "init"
    /\ ret' = updateDerivedFields(values, schema, clock)
    /\ values' = ret'.callerValues
    /\ op' = "updateDerivedFields"
    /\ arg' = values
    /\ prev' = [op |-> op, arg |-> arg, ret |-> ret]
    /\ UNCHANGED <<form, schema, declared, clock>>

Next == Recompute

Spec == Init /\ [][Next]_vars

PassDone == op = "updateDerivedFields"

(***************************************************************************)
(* C1                                                                      *)
(***************************************************************************)
\* the pairs <<C, B>> of the last pass: C is a derived field whose expression
\* was run, B a derived field among C's parentFields
ReadPairs ==
    {p \in (DOMAIN ret.reads) \X DerivedIdsOf(schema) :
        p[2] \in ParentsOf(schema, p[1])}

\* C1 as claimed: in a pass over an acyclic schema, every derived field C
\* that is evaluated reads, for each derived parent B, the value computed for
\* B in this pass, never B's entry of the input map.
C1_ReadsFreshAlways ==
    (PassDone /\ ~HasDirectedCycle(schema)) =>
        \A p \in ReadPairs :
            /\ p[2] \in DOMAIN ret.computed
            /\ ret.reads[p[1]][p[2]] = ret.computed[p[2]]

\* C1 as amended: in a pass over an acyclic schema, an evaluated derived field
\* C reads, for each derived parent B, the value computed for B in this pass
\* when B's evaluation succeeded, and B's entry of the input map when B's
\* evaluation failed in this pass.
C1_ReadsFreshUnlessParentFailed ==
    (PassDone /\ ~HasDirectedCycle(schema)) =>
        \A p \in ReadPairs :
            IF p[2] \in DOMAIN ret.computed
            THEN ret.reads[p[1]][p[2]] = ret.computed[p[2]]
            ELSE /\ p[2] \in DOMAIN ret.errors
                 /\ p[2] \in DOMAIN arg
                 /\ ret.reads[p[1]][p[2]] = arg[p[2]]

\* C is declared before its parent B, B held another value in the input map
\* than the one computed in the pass, and C read the computed one
C1_Witness ==
    /\ PassDone
    /\ ~HasDirectedCycle(schema)
    /\ \E p \in ReadPairs :
          /\ PositionOf(schema, p[1]) < PositionOf(schema, p[2])
          /\ p[2] \in DOMAIN ret.computed
          /\ p[2] \in DOMAIN arg
          /\ arg[p[2]] # ret.computed[p[2]]
          /\ ret.reads[p[1]][p[2]] = ret.computed[p[2]]
          /\ p[1] \in DOMAIN ret.computed
          /\ ret.values[p[1]] = Plus(ret.computed[p[2]], Num(1))
          /\ ret.computed[p[2]] = Num(3)

(***************************************************************************)
(* What the claims about a pass read off the state after Recompute.        *)
(***************************************************************************)
ErrorTypes ==
    {"invalid_expression", "missing_parent", "evaluation_error",
     "circular_dependency"}
ConfigOf(id) == schema[PositionOf(schema, id)].derivedFrom[1]
\* the entry of id in the returned map is the one of the input map
EntryUnchanged(id) ==
    /\ id \in DOMAIN ret.values <=> id \in DOMAIN arg
    /\ id \in DOMAIN arg => ret.values[id] = arg[id]
PlainKeys == (DOMAIN arg \cup DOMAIN ret.values) \ DerivedIdsOf(schema)
\* derived fields neither of which depends on the other
Unrelated(f, g) ==
    /\ f # g
    /\ <<f, g>> \notin Ancestors(schema)
    /\ <<g, f>> \notin Ancestors(schema)

(***************************************************************************)
(* C3                                                                      *)
(***************************************************************************)
\* C3: when the dependency graph has a cycle, updateDerivedFields returns a
\* map equal to the input map, recomputes no derived field, and returns a
\* circular_dependency error for every derived field of the schema, on a
\* cycle or not, and for no other id.
C3_CycleMarksAllDerived ==
    (PassDone /\ HasDirectedCycle(schema)) =>
        /\ ~ret.threw
        /\ ret.values = arg
        /\ ret.computed = EmptyMap
        /\ DOMAIN ret.errors = DerivedIdsOf(schema)
        /\ \A id \in DOMAIN ret.errors :
              ret.errors[id].type = "circular_dependency"

\* a cyclic schema with a derived field that is on no cycle and depends on
\* none, holding a value, and a plain field holding one
C3_Witness ==
    /\ PassDone
    /\ HasDirectedCycle(schema)
    /\ \E d \in DerivedIdsOf(schema) :
          /\ \A e \in DerivedIdsOf(schema) : <<d, e>> \notin Ancestors(schema)
          /\ d \in DOMAIN arg
          /\ ret.values[d] = arg[d]
          /\ ret.errors[d].type = "circular_dependency"
    /\ \E k \in PlainKeys : k \in DOMAIN arg /\ k \notin DOMAIN ret.errors

(***************************************************************************)
(* C5                                                                      *)
(***************************************************************************)
\* C5: in an acyclic pass a derived field with a parentFields id that is no
\* key of the working map gets a missing_parent error and keeps the entry
\* it had in the input map (none stays none, no null is stored); a derived
\* field whose parents are all keys, whatever they hold, gets no
\* missing_parent error.
C5_MissingParentKeepsEntry ==
    (PassDone /\ ~HasDirectedCycle(schema)) =>
        \A id \in DerivedIdsOf(schema) :
            /\ id \in DOMAIN ret.keys
            /\ DOMAIN arg \subseteq ret.keys[id]
            /\ ret.keys[id] \subseteq DOMAIN arg \cup DOMAIN ret.computed
            /\ IF \E p \in ParentsOf(schema, id) : p \notin ret.keys[id]
               THEN /\ id \in DOMAIN ret.errors
                    /\ ret.errors[id].type = "missing_parent"
                    /\ EntryUnchanged(id)
               ELSE id \in DOMAIN ret.errors =>
                        ret.errors[id].type # "missing_parent"

\* a derived field holding a value, with one parent that is a key holding
\* null and one that is no key: missing_parent, and the value is kept
C5_Witness ==
    /\ PassDone
    /\ ~HasDirectedCycle(schema)
    /\ \E id \in DerivedIdsOf(schema) :
          /\ "nonexistent" \in ParentsOf(schema, id)
          /\ \E p \in ParentsOf(schema, id) : p \in DOMAIN arg /\ arg[p] = Null
          /\ id \in DOMAIN arg
          /\ arg[id] = StaleValue
          /\ ret.values[id] = StaleValue
          /\ ret.errors[id].type = "missing_parent"

(***************************************************************************)
(* C6                                                                      *)
(***************************************************************************)
\* C6: in an acyclic pass every derived field either succeeds (the returned
\* map holds the result of its expression and there is no error for it) or
\* fails (there is an error for it and its entry is the one of the input
\* map), never both; no non-derived entry changes.
C6_ValueOrError ==
    (PassDone /\ ~HasDirectedCycle(schema)) =>
        /\ \A id \in DerivedIdsOf(schema) :
              \/ /\ id \notin DOMAIN ret.errors
                 /\ id \in DOMAIN ret.reads
                 /\ id \in DOMAIN ret.values
                 /\ ret.values[id] =
                        safeEvaluate(ConfigOf(id).computationLogic,
                                     ret.reads[id], clock).value
              \/ /\ id \in DOMAIN ret.errors
                 /\ ret.errors[id].type \in ErrorTypes
                 /\ ret.errors[id].fieldId = id
                 /\ id \notin DOMAIN ret.computed
                 /\ EntryUnchanged(id)
        /\ DOMAIN ret.errors \subseteq DerivedIdsOf(schema)
        /\ \A k \in PlainKeys : EntryUnchanged(k)

\* one derived field got a new value, another an error and kept the value
\* it held, a plain field kept its value
C6_Witness ==
    /\ PassDone
    /\ ~HasDirectedCycle(schema)
    /\ \E f, g \in DerivedIdsOf(schema) :
          /\ f \notin DOMAIN ret.errors
          /\ f \in DOMAIN arg
          /\ ret.values[f] # arg[f]
          /\ g \in DOMAIN ret.errors
          /\ g \in DOMAIN arg
          /\ ret.values[g] = arg[g]
    /\ \E k \in PlainKeys : k \in DOMAIN arg

(***************************************************************************)
(* C7                                                                      *)
(***************************************************************************)
\* C7: updateDerivedFields returns normally; whatever validateExpression,
\* the evaluation or validateResult throws for a field becomes an entry of
\* errors under the field's id, of one of the four types.
C7_NoExceptionEscapes ==
    PassDone =>
        /\ ~ret.threw
        /\ \A id \in DOMAIN ret.errors :
              /\ id \in FieldIdsOf(schema)
              /\ ret.errors[id].type \in ErrorTypes
        /\ \A id \in DOMAIN ret.reads :
              safeEvaluate(ConfigOf(id).computationLogic, ret.reads[id],
                           clock).threw
                  => id \in DOMAIN ret.errors

\* the expression of a field ran and validateResult rejected its result;
\* the call returned with an evaluation_error for the field
C7_Witness ==
    /\ PassDone
    /\ ~ret.threw
    /\ \E id \in DOMAIN ret.reads :
          /\ ConfigOf(id).computationLogic = EObject
          /\ safeEvaluate(EObject, ret.reads[id], clock).ran
          /\ ret.errors[id].type = "evaluation_error"

(***************************************************************************)
(* C8                                                                      *)
(***************************************************************************)
\* the schema without the derived fields that id does not depend on
WithoutUnrelated(fields, id) ==
    SelectSeq(fields,
              LAMBDA x : \/ ~HasDerivedFrom(x)
                         \/ x.id = id
                         \/ <<id, x.id>> \in Ancestors(fields))
\* the pass over that schema, from the same input
PassAlone(id) == updateDerivedFields(arg, WithoutUnrelated(schema, id), clock)
\* in the pass over that schema id is computed without error
ComputesAlone(id) ==
    /\ ~PassAlone(id).cyclic
    /\ id \in DOMAIN PassAlone(id).computed

\* C8 as claimed: in any pass, a derived field that computes without error
\* when the fields it does not depend on are left out gets the same fresh
\* value with them in, whatever errors they have, circular_dependency
\* included; plain fields keep their values.
C8_UnrelatedAlwaysComputes ==
    PassDone =>
        /\ \A id \in DerivedIdsOf(schema) :
              ComputesAlone(id) =>
                  /\ id \notin DOMAIN ret.errors
                  /\ id \in DOMAIN ret.values
                  /\ ret.values[id] = PassAlone(id).values[id]
        /\ \A k \in PlainKeys : EntryUnchanged(k)

\* C8 as amended: the same for every pass over an acyclic dependency graph,
\* that is whatever missing_parent, invalid_expression or evaluation_error
\* the unrelated fields have; when the graph has a cycle no derived field is
\* recomputed, the ones unrelated to the cycle included; plain fields keep
\* their values in both cases.
C8_UnrelatedComputesUnlessCycle ==
    PassDone =>
        /\ ~HasDirectedCycle(schema) =>
              \A id \in DerivedIdsOf(schema) :
                  ComputesAlone(id) =>
                      /\ id \notin DOMAIN ret.errors
                      /\ id \in DOMAIN ret.values
                      /\ ret.values[id] = PassAlone(id).values[id]
        /\ HasDirectedCycle(schema) =>
              /\ ret.computed = EmptyMap
              /\ \A id \in DerivedIdsOf(schema) : EntryUnchanged(id)
        /\ \A k \in PlainKeys : EntryUnchanged(k)

\* a derived field g fails, and an unrelated derived field f that comes
\* after g in the evaluation order gets a fresh value
C8_Witness ==
    /\ PassDone
    /\ ~HasDirectedCycle(schema)
    /\ \E f, g \in DerivedIdsOf(schema) :
          /\ Unrelated(f, g)
          /\ g \in DOMAIN ret.errors
          /\ \E i, j \in 1..Len(ret.order) :
                i < j /\ ret.order[i] = g /\ ret.order[j] = f
          /\ f \in DOMAIN ret.computed
          /\ f \in DOMAIN arg
          /\ ret.values[f] # arg[f]
          /\ Len(ConfigOf(f).parentFields) > 0

TypedValue == Str("typed")
MapRemove(map, key) == [k \in DOMAIN map \ {key} |-> map[k]]
\* the maps that differ from the input map of the pass at most at id
AlternativesAt(id) ==
    {MapRemove(arg, id), MapSet(arg, id, StaleValue), MapSet(arg, id, TypedValue)}
\* the entry of id in the values that pass r returned: <<>> for none
ReturnedEntry(r, id) ==
    IF id \in DOMAIN r.values THEN <<r.values[id]>> ELSE <<>>

\* C11 as claimed: in every pass, what is returned for a derived field does
\* not depend on what the input map held under the field's own id.
C11_AlwaysOverwritten ==
    PassDone =>
        \A id \in DerivedIdsOf(schema) : \A alt \in AlternativesAt(id) :
            ReturnedEntry(updateDerivedFields(alt, schema, clock), id)
                = ReturnedEntry(ret, id)

\* C11 as amended: whether a derived field is computed in a pass does not
\* depend on what the input map held under its own id; when it is computed,
\* the returned entry is the computed value and does not depend on it
\* either; when it is not (its evaluation failed or the graph has a cycle),
\* the returned entry is the entry of the input map and the field has an
\* error.
C11_OverwrittenWhenComputed ==
    PassDone =>
        \A id \in DerivedIdsOf(schema) :
            /\ \A alt \in AlternativesAt(id) :
                  /\ id \in DOMAIN ret.computed
                        <=> id \in DOMAIN updateDerivedFields(alt, schema, clock).computed
                  /\ id \in DOMAIN ret.computed =>
                        ReturnedEntry(updateDerivedFields(alt, schema, clock), id)
                            = <<ret.computed[id]>>
            /\ id \in DOMAIN ret.computed =>
                  ReturnedEntry(ret, id) = <<ret.computed[id]>>
            /\ id \notin DOMAIN ret.computed =>
                  /\ EntryUnchanged(id)
                  /\ id \in DOMAIN ret.errors

\* a derived field with parents held a value and got another one
C11_Witness ==
    /\ PassDone
    /\ \E id \in DOMAIN ret.computed :
          /\ id \in DOMAIN arg
          /\ arg[id] = StaleValue
          /\ ret.values[id] # StaleValue
          /\ Len(ConfigOf(id).parentFields) > 0
          /\ ReturnedEntry(updateDerivedFields(MapSet(arg, id, TypedValue),
                                               schema, clock), id)
                = <<ret.values[id]>>

(***************************************************************************)
(* SpecGraph: the resolver alone, over every dependency graph of the       *)
(* bounds.  sortFieldsByDependencies is called where the code calls it:    *)
(* after detectCircularDependencies returned null.                         *)
(***************************************************************************)
InitGraph ==
    /\ \E g \in Graphs :
          schema = SchemaOf(g, [i \in DerivedPositions(g) |-> "default"])
    /\ values = EmptyMap
    /\ clock = 0
    /\ op = "init"
    /\ arg = EmptyMap
    /\ ret = NoCall
    /\ prev = NoCall
    /\ declared = schema
    /\ form = NoForm

DetectCycles ==
    /\ op' = "detectCircularDependencies"
    /\ ret' = [error |-> detectCircularDependencies(derivedFieldsOf(schema))]
    /\ UNCHANGED <<form, schema, declared, values, clock, arg, prev>>

SortFields ==
    /\ detectCircularDependencies(derivedFieldsOf(schema)) = <<>>
    /\ op' = "sortFieldsByDependencies"
    /\ ret' = [sorted |-> sortFieldsByDependencies(derivedFieldsOf(schema))]
    /\ UNCHANGED <<form, schema, declared, values, clock, arg, prev>>

NextGraph == DetectCycles \/ SortFields

SpecGraph == InitGraph /\ [][NextGraph]_vars

(***************************************************************************)
(* C2                                                                      *)
(***************************************************************************)
SortDone == op = "sortFieldsByDependencies"
SortedIds == [i \in 1..Len(ret.sorted) |-> ret.sorted[i].id]
UniqueIds(fields) ==
    \A i, j \in 1..Len(fields) : fields[i].id = fields[j].id => i = j

\* C2: for derived fields with unique ids and an acyclic dependency graph,
\* sortFieldsByDependencies returns every derived field exactly once, each
\* after every derived field of its parentFields and so after all of its
\* derived ancestors, whatever the declaration order.
C2_SortIsTopological ==
    (SortDone /\ UniqueIds(schema) /\ ~HasDirectedCycle(schema)) =>
        /\ Len(ret.sorted) = Cardinality(DerivedIdsOf(schema))
        /\ Range(ret.sorted) = Range(derivedFieldsOf(schema))
        /\ \A e \in DependencyEdges(schema) :
              PositionOf(ret.sorted, e[2]) < PositionOf(ret.sorted, e[1])
        /\ \A e \in Ancestors(schema) :
              PositionOf(ret.sorted, e[2]) < PositionOf(ret.sorted, e[1])

\* a chain of three derived fields declared children first, sorted parents first
C2_Witness ==
    /\ SortDone
    /\ DependencyEdges(schema) = {<<"a", "b">>, <<"b", "c">>}
    /\ SortedIds = <<"c", "b", "a">>

(***************************************************************************)
(* C4                                                                      *)
(***************************************************************************)
DetectDone == op = "detectCircularDependencies"

\* C4: detectCircularDependencies reports a cycle exactly when the graph of
\* the derived-to-derived parentFields edges has a directed cycle.
C4_DetectsExactlyCycles ==
    DetectDone =>
        /\ (ret.error # <<>>) <=> HasDirectedCycle(schema)
        /\ ret.error # <<>> => ret.error[1].type = "circular_dependency"

\* a diamond: top has the parents mid and bottom, mid has the parent bottom,
\* bottom has a parent that is no field; no cycle is reported
C4_Witness ==
    /\ DetectDone
    /\ ret.error = <<>>
    /\ \E top, mid, bottom \in DerivedIdsOf(schema) :
          /\ Cardinality({top, mid, bottom}) = 3
          /\ {mid, bottom} \subseteq ParentsOf(schema, top)
          /\ bottom \in ParentsOf(schema, mid)
          /\ "nonexistent" \in ParentsOf(schema, bottom)

(***************************************************************************)
(* SpecRepeat: the caller of FormPreview calls updateDerivedFields again,  *)
(* with the map it passed before or with the map it got back, while the    *)
(* host's clock runs.                                                      *)
(***************************************************************************)
InitRepeat ==
    /\ Init
    /\ \A i \in 1..Len(schema) :
          HasDerivedFrom(schema[i]) =>
              Len(schema[i].derivedFrom[1].parentFields) <= MaxRepeatParents
    /\ Cardinality(DerivedIdsOf(schema)) <= MaxRepeatParents + 1

\* a second call with the caller's current map
RecomputeAgain ==
    /\ PassDone
    /\ prev.op = "init"
    /\ ret' = updateDerivedFields(values, schema, clock)
    /\ arg' = values
    /\ prev' = [op |-> op, arg |-> arg, ret |-> ret]
    /\ UNCHANGED <<form, schema, declared, values, clock, op>>

\* the caller stores the returned map as its values
Adopt ==
    /\ PassDone
    /\ prev.op = "init"
    /\ values # ret.values
    /\ values' = ret.values
    /\ UNCHANGED <<form, schema, declared, clock, op, arg, ret, prev>>

\* time passes between two calls
Tick ==
    /\ clock < MaxClock
    /\ clock' = clock + 1
    /\ UNCHANGED <<form, schema, declared, values, op, arg, ret, prev>>

NextRepeat == Recompute \/ RecomputeAgain \/ Adopt \/ Tick

SpecRepeat == InitRepeat /\ [][NextRepeat]_vars

(***************************************************************************)
(* C10                                                                     *)
(***************************************************************************)
SecondPassDone == PassDone /\ prev.op = "updateDerivedFields"

\* C10 as claimed: two calls of updateDerivedFields with the same value map
\* and schema return equal value maps, and a call with the map that the
\* call before returned returns that map.
C10_NoDrift ==
    SecondPassDone =>
        /\ arg = prev.arg => ret.values = prev.ret.values
        /\ arg = prev.ret.values => ret.values = arg

(***************************************************************************)
(* SpecSandbox: one pass over a schema with one derived field b between    *)
(* the plain fields a and c, for every expression of the catalogue, with   *)
(* a as b's declared parent or not, and every kind of value under a.       *)
(***************************************************************************)
SandboxLogics ==
    {ERef("a"), EInc("a"), EDouble("a"), EOnePlusOne, EEmpty, ENotAString,
     EProcessExit, EThisConstructor, EEval, ENewDate, EBracket("a"), ELong,
     EUnbalanced, EClosedFirst, EUnbound, ERef("c"), EObject, EMathAbs,
     EDateNow, EConsoleLog, ERef("globalThis"), ERef("Date"), ERef("JSON"),
     ERef("Object"), ERef("console"), EArrayOfPrimitives("a"),
     EArrayOfFunction, EArrayOfObject, ENestedArray}
SandboxValues ==
    {Num(2), Str("x"), Bool(TRUE), Null, Undef, DateObj(0),
     Arr(<<Num(1), Str("x")>>), Arr(<<Obj({})>>), Obj({"k"})}
OtherFieldValue == Num(5)

InitSandbox ==
    /\ \E parentFields \in {<<>>, <<"a">>} : \E logic \in SandboxLogics :
          schema = <<PlainField("a"), DerivedField("b", parentFields, logic),
                     PlainField("c")>>
    /\ \E v \in SandboxValues : \E m \in {EmptyMap, MapSet(EmptyMap, "a", v)} :
          values \in {MapSet(m, "c", OtherFieldValue),
                      MapSet(MapSet(m, "c", OtherFieldValue), "b", StaleValue)}
    /\ clock \in 0..MaxClock
    /\ op = "init"
    /\ arg = EmptyMap
    /\ ret = NoCall
    /\ prev = NoCall
    /\ declared = schema
    /\ form = NoForm

SpecSandbox == InitSandbox /\ [][Next]_vars

(***************************************************************************)
(* C12                                                                     *)
(***************************************************************************)
\* the tokens that the claim names
NamedForbiddenWords == {"process", "this", "constructor", "eval", "new"}
HasForbiddenConstruct(expression) ==
    \/ expression.words \cap NamedForbiddenWords # {}
    \/ expression.bracketString
    \/ MatchesDangerousPattern(expression)

\* C12: a derived field whose expression holds a deny-listed word or a
\* bracket-string access gets an error, keeps its entry of the input map,
\* and no function is built from the expression; an expression without one
\* that passes the length and parenthesis checks is run, and 1+1 gives 2.
C12_DenyListPrecedesEvaluation ==
    PassDone =>
        \A id \in DerivedIdsOf(schema) :
            /\ HasForbiddenConstruct(ConfigOf(id).computationLogic) =>
                  /\ id \in DOMAIN ret.errors
                  /\ id \notin DOMAIN ret.computed
                  /\ EntryUnchanged(id)
                  /\ id \in DOMAIN ret.reads =>
                        ~safeEvaluate(ConfigOf(id).computationLogic,
                                      ret.reads[id], clock).ran
            /\ ( /\ ~HasForbiddenConstruct(ConfigOf(id).computationLogic)
                 /\ id \in DOMAIN ret.reads
                 /\ ~validateExpression(ConfigOf(id).computationLogic).threw )
                  => safeEvaluate(ConfigOf(id).computationLogic,
                                  ret.reads[id], clock).ran
            /\ ( /\ ConfigOf(id).computationLogic = EOnePlusOne
                 /\ id \in DOMAIN ret.reads )
                  => /\ id \notin DOMAIN ret.errors
                     /\ ReturnedEntry(ret, id) = <<Num(2)>>

\* this.constructor as the expression of a field whose parent is present:
\* the field has an error, keeps its value, and nothing was run
C12_Witness ==
    /\ PassDone
    /\ \E id \in DOMAIN ret.reads :
          /\ ConfigOf(id).computationLogic = EThisConstructor
          /\ Len(ConfigOf(id).parentFields) > 0
          /\ id \in DOMAIN ret.errors
          /\ ReturnedEntry(ret, id) = <<StaleValue>>
          /\ ~safeEvaluate(EThisConstructor, ret.reads[id], clock).ran

(***************************************************************************)
(* C13                                                                     *)
(***************************************************************************)
RECURSIVE FreeNames(_)
\* the identifiers that the expression tree looks up in its scope
FreeNames(ast) ==
    CASE ast.k = "id" -> {ast.name}
      [] ast.k = "plus" -> FreeNames(ast.l) \cup FreeNames(ast.r)
      [] ast.k \in {"member", "call"} -> {ast.obj}
      [] ast.k = "new" -> {ast.name}
      [] ast.k = "arrlit" ->
            UNION {FreeNames(ast.items[i]) : i \in 1..Len(ast.items)}
      [] OTHER -> {}
SandboxNamespaces == {"Math", "String", "Number"}

\* C13 as claimed: a derived field gets a value from its expression only
\* when every name the expression refers to is one of the field's declared
\* parents or one of Math, String, Number; with any other name the field
\* gets an error.
C13_OnlyContextNamesResolve ==
    PassDone =>
        \A id \in DOMAIN ret.reads :
            ~(FreeNames(ConfigOf(id).computationLogic.ast)
                    \subseteq Range(ConfigOf(id).parentFields)
                                \cup SandboxNamespaces)
                => /\ id \in DOMAIN ret.errors
                   /\ id \notin DOMAIN ret.computed

(***************************************************************************)
(* C14                                                                     *)
(***************************************************************************)
IsPrimitive(v) ==
    v.t \in {"number", "NaN", "string", "boolean", "null", "undefined"}
\* the result shapes that the claim lets through
IsAllowedResult(v) ==
    \/ IsPrimitive(v)
    \/ v.t = "date"
    \/ /\ v.t = "array"
       /\ \A i \in 1..Len(v.items) : IsPrimitive(v.items[i])

\* C14 as claimed: an expression result that is a primitive, a Date or an
\* array of primitives is written under the field's id; every other result
\* gives the field an error and leaves its entry as it was, so no other
\* value is ever written.
C14_OnlyAllowedResultsWritten ==
    PassDone =>
        /\ \A id \in DOMAIN ret.computed : IsAllowedResult(ret.values[id])
        /\ \A id \in DOMAIN ret.reads :
              LET r == RunFunction(ConfigOf(id).computationLogic,
                                   ret.reads[id], clock)
              IN  ( /\ ~validateExpression(ConfigOf(id).computationLogic).threw
                    /\ ~r.threw )
                      => IF IsAllowedResult(r.value)
                         THEN /\ id \notin DOMAIN ret.errors
                              /\ ReturnedEntry(ret, id) = <<r.value>>
                         ELSE /\ id \in DOMAIN ret.errors
                              /\ EntryUnchanged(id)

(***************************************************************************)
(* C15                                                                     *)
(***************************************************************************)
\* empty or no string, longer than 500 characters, or unbalanced parentheses
IsInvalidExpression(expression) ==
    \/ expression.text = ""
    \/ ~expression.isString
    \/ Len(expression.text) > MaxExpressionLength
    \/ ~ParenLoop(expression.parens, 1, 0)
\* the field's parents are all keys of the map it is evaluated against
ParentsPresent(id) ==
    /\ id \in DOMAIN ret.keys
    /\ Range(ConfigOf(id).parentFields) \subseteq ret.keys[id]

\* C15 as claimed: a derived field whose parents are present and whose
\* expression is empty, no string, too long or unbalanced gets an
\* invalid_expression error, and an evaluation_error is given only to
\* expressions that are none of these.
C15_InvalidExpressionType ==
    PassDone =>
        \A id \in DerivedIdsOf(schema) :
            ParentsPresent(id) =>
                /\ IsInvalidExpression(ConfigOf(id).computationLogic) =>
                      /\ id \in DOMAIN ret.errors
                      /\ ret.errors[id].type = "invalid_expression"
                /\ ( /\ id \in DOMAIN ret.errors
                     /\ ret.errors[id].type = "evaluation_error" )
                      => ~IsInvalidExpression(ConfigOf(id).computationLogic)

(***************************************************************************)
(* ValidationEngine.  A rule is [type, value, message] with value <<>>     *)
(* (absent) or <<n>>; a field is [id, label, required, validation,         *)
(* derivedFrom] with validation <<>> (absent) or <<rules>>.  What a        *)
(* validator returns is <<>> (null) or <<message>>.                        *)
(***************************************************************************)
ValidationRule(type, value, message) ==
    [type |-> type, value |-> value, message |-> message]
FormField(id, label, required, validation, derivedFrom) ==
    [id |-> id, label |-> label, required |-> required,
     validation |-> validation, derivedFrom |-> derivedFrom]

\* the strings of the model for which value.trim() === '' holds
BlankStrings == {"", " "}
\* the strings of the model that emailRegex matches
EmailStrings == {"a@b.co"}
\* the strings of the model that /[A-Z]/, /[a-z]/, /\d/ and the class of
\* special characters match
UpperStrings ==
    {"Abcdef1!", "Ab1!", "ABCDEFG1!", "Abcdefgh!", "Abcdefg1", "NaN",
     "[object Object]"}
LowerStrings ==
    {"Abcdef1!", "Ab1!", "abcdefg1!", "Abcdefgh!", "Abcdefg1", "ab", "abcde",
     "a@b.co", "true", "false", "NaN", "[object Object]"}
DigitStrings ==
    {"Abcdef1!", "Ab1!", "abcdefg1!", "ABCDEFG1!", "Abcdefg1", "0", "5"}
SpecialStrings ==
    {"Abcdef1!", "Ab1!", "abcdefg1!", "ABCDEFG1!", "Abcdefgh!", "a@b.co",
     "[object Object]"}
MinPasswordLength == 8

\* String(value)
StringOf(value) == PrimToStr(ToPrimitive(value))
\* Object.keys(value).length of an object
KeyCount(value) ==
    CASE value.t = "array" -> Len(value.items)
      [] value.t = "object" -> Cardinality(value.members)
      [] OTHER -> 0

\* a check by falsiness
validateNotEmpty_Falsy(value, message) ==
    IF value.t \in {"null", "undefined", "NaN"} THEN <<message>>
    ELSE IF value.t = "string" /\ value.s \in BlankStrings THEN <<message>>
    ELSE IF value.t = "number" /\ value.n = 0 THEN <<message>>
    ELSE IF value.t = "boolean" /\ ~value.b THEN <<message>>
    ELSE IF value.t = "array" /\ Len(value.items) = 0 THEN <<message>>
    ELSE IF TypeOf(value) = "object" /\ KeyCount(value) = 0 THEN <<message>>
    ELSE <<>>

validateNotEmpty(value, message) ==
    IF value.t \in {"null", "undefined"} THEN <<message>>
    ELSE IF value.t = "string" /\ value.s \in BlankStrings THEN <<message>>
    ELSE IF value.t = "array" /\ Len(value.items) = 0 THEN <<message>>
    ELSE IF TypeOf(value) = "object" /\ KeyCount(value) = 0 THEN <<message>>
    ELSE <<>>

\* a comparison with an absent rule.value (undefined) is false
\* a minimum that the length has to exceed
validateMinLength_Exclusive(value, minLength, message) ==
    IF value.t \in {"null", "undefined"} THEN <<>>
    ELSE IF minLength # <<>> /\ Len(StringOf(value)) <= minLength[1]
    THEN <<message>>
    ELSE <<>>

validateMinLength(value, minLength, message) ==
    IF value.t \in {"null", "undefined"} THEN <<>>
    ELSE IF minLength # <<>> /\ Len(StringOf(value)) < minLength[1]
    THEN <<message>>
    ELSE <<>>

validateMaxLength(value, maxLength, message) ==
    IF value.t \in {"null", "undefined"} THEN <<>>
    ELSE IF maxLength # <<>> /\ Len(StringOf(value)) > maxLength[1]
    THEN <<message>>
    ELSE <<>>

validateEmail(value, message) ==
    IF value.t \in {"null", "undefined"} \/ value = Str("") THEN <<>>
    ELSE IF StringOf(value) \notin EmailStrings THEN <<message>>
    ELSE <<>>

\* a check that leaves out the special character
validateCustomPassword_NoSpecialCheck(value, message) ==
    IF value.t \in {"null", "undefined"} \/ value = Str("") THEN <<>>
    ELSE IF Len(StringOf(value)) < MinPasswordLength THEN <<message>>
    ELSE IF StringOf(value) \notin UpperStrings THEN <<message>>
    ELSE IF StringOf(value) \notin LowerStrings THEN <<message>>
    ELSE IF StringOf(value) \notin DigitStrings THEN <<message>>
    ELSE <<>>

validateCustomPassword(value, message) ==
    IF value.t \in {"null", "undefined"} \/ value = Str("") THEN <<>>
    ELSE IF Len(StringOf(value)) < MinPasswordLength THEN <<message>>
    ELSE IF StringOf(value) \notin UpperStrings THEN <<message>>
    ELSE IF StringOf(value) \notin LowerStrings THEN <<message>>
    ELSE IF StringOf(value) \notin DigitStrings THEN <<message>>
    ELSE IF StringOf(value) \notin SpecialStrings THEN <<message>>
    ELSE <<>>

\* a switch whose default branch reports the rule
validateSingleRule_DefaultFails(value, rule) ==
    CASE rule.type = "notEmpty" -> validateNotEmpty(value, rule.message)
      [] rule.type = "minLength" ->
            validateMinLength(value, rule.value, rule.message)
      [] rule.type = "maxLength" ->
            validateMaxLength(value, rule.value, rule.message)
      [] rule.type = "email" -> validateEmail(value, rule.message)
      [] rule.type = "customPassword" ->
            validateCustomPassword(value, rule.message)
      [] OTHER -> <<rule.message>>

validateSingleRule(value, rule) ==
    CASE rule.type = "notEmpty" -> validateNotEmpty(value, rule.message)
      [] rule.type = "minLength" ->
            validateMinLength(value, rule.value, rule.message)
      [] rule.type = "maxLength" ->
            validateMaxLength(value, rule.value, rule.message)
      [] rule.type = "email" -> validateEmail(value, rule.message)
      [] rule.type = "customPassword" ->
            validateCustomPassword(value, rule.message)
      [] OTHER -> <<>>

\* if (error) errors.push(error): the empty string is falsy
pushError(errors, error) ==
    IF error # <<>> /\ error[1] # "" THEN errors \o error ELSE errors

RECURSIVE validateFieldLoop(_, _, _, _)
\* a loop that ends at the first rule that fails
validateFieldLoop_StopsAtFirst(value, rules, i, errors) ==
    IF i > Len(rules) \/ errors # <<>> THEN errors
    ELSE validateFieldLoop(value, rules, i + 1,
             pushError(errors, validateSingleRule(value, rules[i])))

\* for (const rule of rules), from rule i on
validateFieldLoop(value, rules, i, errors) ==
    IF i > Len(rules) THEN errors
    ELSE validateFieldLoop(value, rules, i + 1,
             pushError(errors, validateSingleRule(value, rules[i])))

\* return { isValid: errors.length === 0, errors }
validationResult(errors) == [isValid |-> Len(errors) = 0, errors |-> errors]

validateField(value, rules) ==
    validationResult(validateFieldLoop(value, rules, 1, <<>>))

\* const rules = field.validation || []
rulesOf(field) == IF field.validation = <<>> THEN <<>> ELSE field.validation[1]
\* rules.some(rule => rule.type === 'notEmpty')
hasNotEmptyRule(rules) == \E i \in 1..Len(rules) : rules[i].type = "notEmpty"
requiredRule(field) ==
    ValidationRule("notEmpty", <<>>, field.label \o " is required")

\* an injection that does not look for a notEmpty rule
addsRequiredRule_WithoutLookingForOne(field) == field.required

\* if (field.required) { ... if (!hasNotEmptyRule) ...
addsRequiredRule(field) == field.required /\ ~hasNotEmptyRule(rulesOf(field))

\* rules after rules.unshift(requiredRule), where it runs
rulesAfterUnshift(field) ==
    IF addsRequiredRule(field) THEN <<requiredRule(field)>> \o rulesOf(field)
    ELSE rulesOf(field)

\* the field after the iteration: rules is field.validation itself when the
\* field has one, so unshift changes the field; it is a new array otherwise
fieldAfterUnshift(field) ==
    IF addsRequiredRule(field) /\ field.validation # <<>>
    THEN [field EXCEPT !.validation = <<rulesAfterUnshift(field)>>]
    ELSE field

\* the working state of validateForm's loop: fieldErrors, isValid, the
\* fields as the iterations so far left them, and for each field the rules
\* that were handed to validateField
FormLoopState(fieldErrors, isValid, fields, rules) ==
    [fieldErrors |-> fieldErrors, isValid |-> isValid, fields |-> fields,
     rules |-> rules]

\* an iteration that stores the errors of every field
recordResult_StoresAlways(st, field, result) ==
    FormLoopState(MapSet(st.fieldErrors, field.id, result.errors),
                  st.isValid /\ result.isValid,
                  Append(st.fields, fieldAfterUnshift(field)),
                  MapSet(st.rules, field.id, rulesAfterUnshift(field)))

\* if (!result.isValid) { fieldErrors[field.id] = result.errors; isValid = false }
recordResult(st, field, result) ==
    FormLoopState(IF ~result.isValid
                  THEN MapSet(st.fieldErrors, field.id, result.errors)
                  ELSE st.fieldErrors,
                  st.isValid /\ result.isValid,
                  Append(st.fields, fieldAfterUnshift(field)),
                  MapSet(st.rules, field.id, rulesAfterUnshift(field)))

RECURSIVE validateFormLoop(_, _, _, _)
\* for (const field of schema.fields), from field i on
validateFormLoop(formValues, fields, i, st) ==
    IF i > Len(fields) THEN st
    ELSE validateFormLoop(formValues, fields, i + 1,
             recordResult(st, fields[i],
                 validateField(Lookup(formValues, fields[i].id),
                               rulesAfterUnshift(fields[i]))))

\* what the call gives: isValid and fieldErrors, and of the call itself the
\* fields as it left them and the rules each field was checked against
validateForm(formValues, fields) ==
    validateFormLoop(formValues, fields, 1,
                     FormLoopState(EmptyMap, TRUE, <<>>, EmptyMap))

(***************************************************************************)
(* SpecValidate: a caller with a schema of two fields validates the form,  *)
(* recomputes the derived field and changes the required flag of a field.  *)
(***************************************************************************)
TooShort == ValidationRule("minLength", <<3>>, "A is too short")
FarTooShort == ValidationRule("minLength", <<5>>, "A needs 5 characters")
TooLong == ValidationRule("maxLength", <<4>>, "A is too long")
NoEmail == ValidationRule("email", <<>>, "A is no email address")
WeakPassword == ValidationRule("customPassword", <<>>, "A is too weak")
OwnNotEmpty == ValidationRule("notEmpty", <<>>, "Please fill in A")
UnknownRule == ValidationRule("pattern", <<>>, "A has the wrong pattern")

\* the validation of field a: absent, or an array of rules
ValidationChoices ==
    {<<>>, << <<>> >>, << <<TooShort>> >>, << <<OwnNotEmpty>> >>,
     << <<TooShort, FarTooShort>> >>, << <<TooShort, NoEmail, UnknownRule>> >>,
     << <<TooLong, WeakPassword>> >>}
\* what field a may hold
ValidatedValues ==
    {Null, Str(""), Str(" "), Str("ab"), Str("a@b.co"), Str("Abcdef1!"),
     Num(5), Arr(<<>>), Obj({})}
\* field b: a plain field, or a required derived field computed from a
SecondFieldChoices ==
    {FormField("b", "B", FALSE, <<>>, <<>>),
     FormField("b", "B", TRUE, <<>>,
               DerivedField("b", <<"a">>, ERef("a")).derivedFrom)}

InitValidate ==
    /\ \E required \in BOOLEAN : \E validation \in ValidationChoices :
       \E second \in SecondFieldChoices :
          schema = <<FormField("a", "A", required, validation, <<>>), second>>
    /\ \E v \in ValidatedValues :
          values \in {EmptyMap, MapSet(EmptyMap, "a", v),
                      MapSet(MapSet(EmptyMap, "a", v), "b", Str("ab"))}
    /\ clock = 0
    /\ op = "init"
    /\ arg = EmptyMap
    /\ ret = NoCall
    /\ prev = NoCall
    /\ declared = schema
    /\ form = NoForm

\* ValidationEngine.validateForm(values, schema); prev keeps the call before
\* when nothing happened between the two
ValidateForm ==
    /\ ret' = validateForm(values, schema)
    /\ schema' = ret'.fields
    /\ op' = "validateForm"
    /\ arg' = values
    /\ prev' = IF op = "validateForm"
               THEN [op |-> op, arg |-> arg, ret |-> ret]
               ELSE NoCall
    /\ UNCHANGED <<form, declared, values, clock>>

\* DerivedFieldCalculator.updateDerivedFields(values, schema), whose values
\* the caller keeps
UpdateDerived ==
    /\ ret' = updateDerivedFields(values, schema, clock)
    /\ values' = ret'.values
    /\ op' = "updateDerivedFields"
    /\ arg' = values
    /\ prev' = NoCall
    /\ UNCHANGED <<form, schema, declared, clock>>

\* the caller sets the required flag of field i
SetRequired ==
    \E i \in 1..Len(schema) : \E required \in BOOLEAN :
        /\ schema[i].required # required
        /\ schema' = [schema EXCEPT ![i].required = required]
        /\ declared' = [declared EXCEPT ![i].required = required]
        /\ op' = "setRequired"
        /\ arg' = EmptyMap
        /\ ret' = NoCall
        /\ prev' = NoCall
        /\ UNCHANGED <<form, values, clock>>

NextValidate == ValidateForm \/ UpdateDerived \/ SetRequired

SpecValidate == InitValidate /\ [][NextValidate]_vars

ValidateDone == op = "validateForm"

(***************************************************************************)
(* C16                                                                     *)
(***************************************************************************)
\* the rule list that the claim gives a field as the caller declared it
EffectiveRulesOf(field) ==
    IF /\ field.required
       /\ \A j \in 1..Len(rulesOf(field)) : rulesOf(field)[j].type # "notEmpty"
    THEN <<[type |-> "notEmpty", value |-> <<>>,
            message |-> field.label \o " is required"]>> \o rulesOf(field)
    ELSE rulesOf(field)

\* C16 as claimed: in every validateForm call each field is checked against
\* its declared rules, preceded by the synthesized rule '<label> is
\* required' exactly when the field is required and declares no notEmpty
\* rule; a field that is not required is checked against its declared rules
\* only.
C16_EffectiveRuleList ==
    ValidateDone =>
        \A i \in 1..Len(declared) :
            ret.rules[declared[i].id] = EffectiveRulesOf(declared[i])

(***************************************************************************)
(* C17                                                                     *)
(***************************************************************************)
\* the value that the last validateForm call read for the field
ValidatedValue(id) == Lookup(arg, id)
\* the messages of the rules, in order, that fail for the value
FailingMessages(value, rules) ==
    LET failing == SelectSeq(rules,
                       LAMBDA rule : validateSingleRule(value, rule) # <<>>)
    IN  [j \in 1..Len(failing) |-> failing[j].message]

\* C17: for every field, the errors that validateForm reports are the
\* messages of all the rules the field was checked against that fail for its
\* value, in the order of the rules, two rules of one type included.
C17_AllFailingRulesReported ==
    ValidateDone =>
        \A id \in DOMAIN ret.rules :
            FailingMessages(ValidatedValue(id), ret.rules[id]) =
                (IF id \in DOMAIN ret.fieldErrors THEN ret.fieldErrors[id]
                 ELSE <<>>)

\* two minLength rules fail for "ab" behind the synthesized rule that
\* passes: both messages are reported, in order
C17_Witness ==
    /\ ValidateDone
    /\ "a" \in DOMAIN ret.rules
    /\ Len(ret.rules["a"]) = 3
    /\ ret.rules["a"][2].type = ret.rules["a"][3].type
    /\ "a" \in DOMAIN ret.fieldErrors
    /\ ret.fieldErrors["a"] = <<TooShort.message, FarTooShort.message>>

(***************************************************************************)
(* C18                                                                     *)
(***************************************************************************)
\* C18: fieldErrors has an entry for exactly the fields of the schema with a
\* rule, among those the field was checked against, that fails for its
\* value; no entry is an empty list; isValid is TRUE exactly when
\* fieldErrors has no entry.
C18_EntryIffRuleFails ==
    ValidateDone =>
        /\ DOMAIN ret.fieldErrors =
              {id \in FieldIdsOf(schema) :
                  \E j \in 1..Len(ret.rules[id]) :
                      validateSingleRule(ValidatedValue(id), ret.rules[id][j])
                          # <<>>}
        /\ \A id \in DOMAIN ret.fieldErrors : Len(ret.fieldErrors[id]) > 0
        /\ ret.isValid <=> DOMAIN ret.fieldErrors = {}

\* a form of two checked fields of which one fails and one passes
C18_Witness ==
    /\ ValidateDone
    /\ ~ret.isValid
    /\ \E id \in FieldIdsOf(schema) :
          /\ id \notin DOMAIN ret.fieldErrors
          /\ Len(ret.rules[id]) > 0
    /\ \E id \in FieldIdsOf(schema) : id \in DOMAIN ret.fieldErrors

(***************************************************************************)
(* C19                                                                     *)
(***************************************************************************)
\* C19 as claimed: whatever calls were made, the fields are as the caller
\* declared them, and validateForm reports '<label> is required' for no
\* field that is not required and declares no such rule.
C19_SchemaOnlyRead ==
    /\ schema = declared
    /\ ValidateDone =>
          \A i \in 1..Len(declared) :
              ( /\ ~declared[i].required
                /\ declared[i].id \in DOMAIN ret.fieldErrors )
                  => \A j \in 1..Len(ret.fieldErrors[declared[i].id]) :
                        ret.fieldErrors[declared[i].id][j]
                            # declared[i].label \o " is required"

(***************************************************************************)
(* C20                                                                     *)
(***************************************************************************)
\* the last two operations were validateForm calls
ValidatedTwice == ValidateDone /\ prev # NoCall

\* C20: two validateForm calls in succession on the same schema and value
\* map, with nothing changed in between, return the same isValid and the
\* same fieldErrors.
C20_SameResultTwice ==
    ValidatedTwice =>
        /\ arg = prev.arg
        /\ ret.isValid = prev.ret.isValid
        /\ ret.fieldErrors = prev.ret.fieldErrors

\* a required field that declares a rule but no notEmpty rule and has no
\* value, validated twice
C20_Witness ==
    /\ ValidatedTwice
    /\ declared[1].required
    /\ rulesOf(declared[1]) = <<TooShort>>
    /\ "a" \notin DOMAIN arg
    /\ ret.fieldErrors["a"] = <<"A is required">>
    /\ prev.ret.fieldErrors["a"] = <<"A is required">>

(***************************************************************************)
(* SpecRule: one field a with a list of rules and a value; the rules are   *)
(* applied to the value, the first one alone and the list as a whole.      *)
(***************************************************************************)
AtMostTwo == ValidationRule("maxLength", <<2>>, "A has more than 2 characters")

\* what the field may hold: what the inputs of a form give, and what a
\* default value or a derived field may put there
RuleValues ==
    {Null, Undef, NaN, Num(0), Num(5), Bool(FALSE), Bool(TRUE),
     Str(""), Str(" "), Str("ab"), Str("abcde"), Str("a@b.co"),
     Str("Abcdef1!"), Str("Ab1!"), Str("abcdefg1!"), Str("ABCDEFG1!"),
     Str("Abcdefgh!"), Str("Abcdefg1"),
     Arr(<<>>), Arr(<<Str("ab")>>), Obj({}), Obj({"k"})}
RuleLists ==
    {<<OwnNotEmpty>>, <<TooShort>>, <<FarTooShort>>, <<TooLong>>,
     <<AtMostTwo>>, <<NoEmail>>, <<WeakPassword>>, <<UnknownRule>>,
     <<UnknownRule, TooShort>>, <<TooShort, UnknownRule, FarTooShort>>,
     <<UnknownRule, OwnNotEmpty, UnknownRule>>}

InitRule ==
    /\ \E rules \in RuleLists :
          schema = <<FormField("a", "A", FALSE, <<rules>>, <<>>)>>
    /\ declared = schema
    /\ form = NoForm
    /\ \E v \in RuleValues : values = MapSet(EmptyMap, "a", v)
    /\ clock = 0
    /\ op = "init"
    /\ arg = EmptyMap
    /\ ret = NoCall
    /\ prev = NoCall

\* this.validateSingleRule(value, rule) for the first rule of the field
ValidateSingleRule ==
    /\ ret' = [error |-> validateSingleRule(Lookup(values, "a"),
                                            rulesOf(schema[1])[1])]
    /\ op' = "validateSingleRule"
    /\ arg' = values
    /\ prev' = NoCall
    /\ UNCHANGED <<form, schema, declared, values, clock>>

\* ValidationEngine.validateField(value, field.validation)
ValidateField ==
    /\ ret' = validateField(Lookup(values, "a"), rulesOf(schema[1]))
    /\ op' = "validateField"
    /\ arg' = values
    /\ prev' = NoCall
    /\ UNCHANGED <<form, schema, declared, values, clock>>

NextRule == ValidateSingleRule \/ ValidateField
SpecRule == InitRule /\ [][NextRule]_vars

RuleDone == op = "validateSingleRule"
FieldDone == op = "validateField"
\* the rule and the value of the last validateSingleRule call
CheckedRule == rulesOf(schema[1])[1]
CheckedValue == Lookup(values, "a")
\* what a rule gives when it fails and when it passes
Fails(rule) == ret.error = <<rule.message>>
Passes == ret.error = <<>>

(***************************************************************************)
(* C21                                                                     *)
(***************************************************************************)
\* null, undefined, the empty and the blank string, the empty array and the
\* objects without keys
EmptyValues ==
    {Null, Undef, Str(""), Str(" "), Arr(<<>>), Obj({})}

\* C21: the notEmpty rule gives its message exactly for null, undefined, a
\* string that is empty or blank, an empty array and an object without
\* keys; for every other value, 0, false, a non-blank string and a
\* non-empty array among them, it gives null.
C21_NotEmptyFailsOnEmptiness ==
    (RuleDone /\ CheckedRule.type = "notEmpty") =>
        IF CheckedValue \in EmptyValues THEN Fails(CheckedRule) ELSE Passes

\* the number 0 passes the notEmpty rule
C21_Witness ==
    /\ RuleDone
    /\ CheckedRule.type = "notEmpty"
    /\ CheckedValue = Num(0)
    /\ Passes

(***************************************************************************)
(* C22                                                                     *)
(***************************************************************************)
\* the lengths of String(value) for the values of the model
LengthOf(value) ==
    CASE value = NaN -> 3
      [] value \in {Num(0), Num(5)} -> 1
      [] value = Bool(FALSE) -> 5
      [] value = Bool(TRUE) -> 4
      [] value = Arr(<<>>) -> 0
      [] value = Arr(<<Str("ab")>>) -> 2
      [] value \in {Obj({}), Obj({"k"})} -> 15
      [] value.t = "string" -> Len(value.s)

\* C22: minLength and maxLength give null for null and undefined; for any
\* other value minLength gives its message exactly when the length of the
\* stringified value is below rule.value, and maxLength exactly when it is
\* above rule.value; a length equal to the bound passes.
C22_LengthBoundsInclusive ==
    (RuleDone /\ CheckedRule.type \in {"minLength", "maxLength"}) =>
        IF CheckedValue \in {Null, Undef} THEN Passes
        ELSE IF \/ /\ CheckedRule.type = "minLength"
                   /\ LengthOf(CheckedValue) < CheckedRule.value[1]
                \/ /\ CheckedRule.type = "maxLength"
                   /\ LengthOf(CheckedValue) > CheckedRule.value[1]
        THEN Fails(CheckedRule)
        ELSE Passes

\* "abcde" passes a minimum of 5
C22_Witness ==
    /\ RuleDone
    /\ CheckedRule = FarTooShort
    /\ CheckedValue = Str("abcde")
    /\ Passes

(***************************************************************************)
(* C23                                                                     *)
(***************************************************************************)
\* the values of the model whose string has 8 characters or more and holds
\* an uppercase letter, a lowercase letter, a digit and a special character
StrongValues == {Str("Abcdef1!")}

\* C23: the customPassword rule gives null for null, undefined and the
\* empty string; for any other value it gives null exactly when the
\* stringified value has 8 characters or more, an uppercase letter, a
\* lowercase letter, a digit and a special character, and its one message
\* otherwise.
C23_StrongPassword ==
    (RuleDone /\ CheckedRule.type = "customPassword") =>
        IF CheckedValue \in {Null, Undef, Str("")} THEN Passes
        ELSE IF CheckedValue \in StrongValues THEN Passes
        ELSE Fails(CheckedRule)

\* a password that lacks nothing but the special character fails
C23_Witness ==
    /\ RuleDone
    /\ CheckedRule.type = "customPassword"
    /\ CheckedValue = Str("Abcdefg1")
    /\ Fails(CheckedRule)

(***************************************************************************)
(* C24                                                                     *)
(***************************************************************************)
RecognizedTypes ==
    {"notEmpty", "minLength", "maxLength", "email", "customPassword"}
\* the rules of the list whose type is recognized
RecognizedRules(rules) ==
    SelectSeq(rules, LAMBDA rule : rule.type \in RecognizedTypes)

\* C24: a rule of an unrecognized type gives null for every value, and the
\* errors of a field are the ones its recognized rules give, in order: the
\* unrecognized rule adds no message and stops no other rule.
C24_UnknownRulePasses ==
    /\ (RuleDone /\ CheckedRule.type \notin RecognizedTypes) => Passes
    /\ FieldDone =>
          /\ ret.errors = FailingMessages(CheckedValue,
                              RecognizedRules(rulesOf(schema[1])))
          /\ ret.isValid <=> ret.errors = <<>>

\* the rules before and after an unrecognized rule both report
C24_Witness ==
    /\ FieldDone
    /\ rulesOf(schema[1]) = <<TooShort, UnknownRule, FarTooShort>>
    /\ ret.errors = <<TooShort.message, FarTooShort.message>>

(***************************************************************************)
(* SpecIds: a schema as the editors build it, every id of the form         *)
(* field-<timestamp>: a field and a derived field whose only parent is     *)
(* that field and whose computationLogic is the parent's id.               *)
(***************************************************************************)
\* the timestamps of the model
Timestamps == {1, 2, 3}
\* `field-${Date.now()}`
GeneratedId(n) == "field-" \o ToString(n)
\* what the parent holds
PrimitiveValues ==
    {Num(0), Num(2), Str(""), Str("x"), Bool(TRUE), Bool(FALSE), Null, NaN}

InitIds ==
    /\ \E n \in Timestamps : \E m \in Timestamps \ {n} :
          /\ schema = <<PlainField(GeneratedId(n)),
                        DerivedField(GeneratedId(m), <<GeneratedId(n)>>,
                                     EFieldMinus(n))>>
          /\ \E v \in PrimitiveValues :
                values \in {MapSet(EmptyMap, GeneratedId(n), v),
                            MapSet(MapSet(EmptyMap, GeneratedId(n), v),
                                   GeneratedId(m), StaleValue)}
    /\ declared = schema
    /\ form = NoForm
    /\ clock = 0
    /\ op = "init"
    /\ arg = EmptyMap
    /\ ret = NoCall
    /\ prev = NoCall

SpecIds == InitIds /\ [][Next]_vars

(***************************************************************************)
(* C25                                                                     *)
(***************************************************************************)
\* C25 as claimed: a derived field whose only parent is a field with a
\* generated id and whose expression is the text of that id gets the
\* parent's value, without an error.
C25_ParentIdsBound ==
    PassDone =>
        \A d \in DerivedIdsOf(schema) :
            \A parent \in DOMAIN arg :
                ( /\ ConfigOf(d).parentFields = <<parent>>
                  /\ ConfigOf(d).computationLogic.text = parent )
                    => /\ d \notin DOMAIN ret.errors
                       /\ d \in DOMAIN ret.values
                       /\ ret.values[d] = arg[parent]

(***************************************************************************)
(* FormPreview: the form session.  values is formState.values; form holds  *)
(* the rest of formState (errors, touched, isValid), hasAttemptedSubmit,   *)
(* submissionData (<<>> or <<values>>), the onSubmit prop (given or not),  *)
(* the effect that is due after the last commit, the submissions that wait *)
(* for their timer, and what was last handed over (<<>> or <<values>>).    *)
(* React runs the effects of a commit before it handles the next event, so *)
(* the handlers run only when no effect is due.                            *)
(***************************************************************************)
\* a FormField with the type, defaultValue (<<>> or <<v>>) and options
PreviewField(id, label, type, required, defaultValue, options, validation, derivedFrom) ==
    [id |-> id, label |-> label, type |-> type, required |-> required,
     defaultValue |-> defaultValue, options |-> options,
     validation |-> validation, derivedFrom |-> derivedFrom]

\* useState<FormState>({values: {}, errors: {}, touched: {}, isValid: false})
InitialForm(onSubmit) ==
    [errors |-> EmptyMap, touched |-> EmptyMap, isValid |-> FALSE,
     hasAttemptedSubmit |-> FALSE, submissionData |-> <<>>,
     onSubmit |-> onSubmit, due |-> "seed", waiting |-> {}, handed |-> <<>>]

\* the value a field starts with
initialValueOf(field) ==
    IF field.defaultValue # <<>> THEN field.defaultValue[1]
    ELSE IF field.type = "checkbox"
    THEN (IF Len(field.options) > 0 THEN Arr(<<>>) ELSE Bool(FALSE))
    ELSE Str("")

RECURSIVE initialValuesFrom(_, _, _)
\* schema.fields.forEach(field => { initialValues[field.id] = ... })
initialValuesFrom(fields, i, initialValues) ==
    IF i > Len(fields) THEN initialValues
    ELSE initialValuesFrom(fields, i + 1,
             MapSet(initialValues, fields[i].id, initialValueOf(fields[i])))
initialValues(fields) == initialValuesFrom(fields, 1, EmptyMap)

\* setFormState(prev => ({...prev, values: initialValues, errors: {},
\* touched: {}, isValid: false})); setHasAttemptedSubmit(false)
seededForm(f) ==
    [f EXCEPT !.errors = EmptyMap, !.touched = EmptyMap, !.isValid = FALSE,
              !.hasAttemptedSubmit = FALSE, !.due = "validate"]

\* the effect on [schema]
SeedEffect ==
    /\ form.due = "seed"
    /\ values' = initialValues(schema)
    /\ form' = seededForm(form)
    /\ op' = "seed"
    /\ arg' = values
    /\ ret' = NoCall
    /\ prev' = NoCall
    /\ UNCHANGED <<schema, declared, clock>>

\* the effect on [formState.values, schema]
ValidationEffect ==
    /\ form.due = "validate"
    /\ ret' = IF DOMAIN values # {} THEN validateForm(values, schema)
              ELSE NoCall
    /\ schema' = IF DOMAIN values # {} THEN ret'.fields ELSE schema
    /\ form' = IF DOMAIN values # {}
               THEN [form EXCEPT !.errors = ret'.fieldErrors,
                                 !.isValid = ret'.isValid, !.due = "none"]
               ELSE [form EXCEPT !.due = "none"]
    /\ op' = "validate"
    /\ arg' = values
    /\ prev' = NoCall
    /\ UNCHANGED <<declared, values, clock>>

\* the form is on the screen and no effect is due
FormShown == form.due = "none" /\ form.submissionData = <<>>

\* what the inputs of a field can give
InputsOf(field) ==
    IF field.type = "checkbox"
    THEN (IF Len(field.options) > 0 THEN {Arr(<<>>), Arr(<<Str("x")>>)}
          ELSE {Bool(FALSE), Bool(TRUE)})
    ELSE {Str(""), Str("ab"), Str("abcde")}

\* the updater of handleFieldChange, for the result of updateDerivedFields
fieldChangeResult(derivedResult, fields) ==
    [values |-> derivedResult.values,
     validation |-> validateForm(derivedResult.values, fields)]

handleFieldChange(fieldId, value) ==
    /\ ret' = fieldChangeResult(
                  updateDerivedFields(MapSet(values, fieldId, value), schema,
                                      clock), schema)
    /\ values' = ret'.values
    /\ schema' = ret'.validation.fields
    /\ form' = [form EXCEPT !.errors = ret'.validation.fieldErrors,
                            !.isValid = ret'.validation.isValid,
                            !.due = "validate"]

HandleFieldChange ==
    /\ FormShown
    /\ \E i \in 1..Len(schema) :
          /\ ~HasDerivedFrom(schema[i])
          /\ \E value \in InputsOf(schema[i]) :
                /\ Lookup(values, schema[i].id) # value
                /\ handleFieldChange(schema[i].id, value)
    /\ op' = "change"
    /\ arg' = values
    /\ prev' = NoCall
    /\ UNCHANGED <<declared, clock>>

HandleFieldBlur ==
    /\ FormShown
    /\ \E i \in 1..Len(schema) :
          /\ schema[i].id \notin DOMAIN form.touched
          /\ form' = [form EXCEPT
                         !.touched = MapSet(form.touched, schema[i].id, TRUE)]
    /\ op' = "blur"
    /\ arg' = values
    /\ ret' = NoCall
    /\ prev' = NoCall
    /\ UNCHANGED <<schema, declared, values, clock>>

\* schema.fields.forEach(field => { allTouched[field.id] = true })
allTouched(fields) == [id \in FieldIdsOf(fields) |-> TRUE]

\* disabled={!formState.isValid && Object.keys(formState.touched).length > 0}
SubmitEnabled == form.isValid \/ DOMAIN form.touched = {}

\* a handleSubmit that goes on whatever isValid is
submittedForm_IgnoresValidity(f, formValues, fields) ==
    LET marked == [f EXCEPT !.hasAttemptedSubmit = TRUE,
                            !.touched = allTouched(fields)]
    IN  IF f.onSubmit THEN [marked EXCEPT !.handed = <<formValues>>]
        ELSE [marked EXCEPT !.waiting = f.waiting \cup {formValues}]

\* handleSubmit up to its first await
submittedForm(f, formValues, fields) ==
    LET marked == [f EXCEPT !.hasAttemptedSubmit = TRUE,
                            !.touched = allTouched(fields)]
    IN  IF ~f.isValid THEN marked
        ELSE IF f.onSubmit THEN [marked EXCEPT !.handed = <<formValues>>]
        ELSE [marked EXCEPT !.waiting = f.waiting \cup {formValues}]

HandleSubmit ==
    /\ FormShown
    /\ SubmitEnabled
    /\ form' = submittedForm(form, values, schema)
    /\ op' = "submit"
    /\ arg' = values
    /\ ret' = NoCall
    /\ prev' = [values |-> values, form |-> form]
    /\ UNCHANGED <<schema, declared, values, clock>>

\* after the timer: setSubmissionData({values: {...formState.values}, ...})
RecordSubmission ==
    /\ \E formValues \in form.waiting :
          form' = [form EXCEPT !.waiting = form.waiting \ {formValues},
                               !.submissionData = <<formValues>>,
                               !.handed = <<formValues>>]
    /\ op' = "record"
    /\ arg' = values
    /\ ret' = NoCall
    /\ prev' = NoCall
    /\ UNCHANGED <<schema, declared, values, clock>>

HandleReset ==
    /\ FormShown
    /\ values' = initialValues(schema)
    /\ form' = seededForm(form)
    /\ op' = "reset"
    /\ arg' = values
    /\ ret' = NoCall
    /\ prev' = NoCall
    /\ UNCHANGED <<schema, declared, clock>>

HandleBackToForm ==
    /\ form.submissionData # <<>>
    /\ form' = [form EXCEPT !.submissionData = <<>>,
                            !.hasAttemptedSubmit = FALSE]
    /\ op' = "back"
    /\ arg' = values
    /\ ret' = NoCall
    /\ prev' = NoCall
    /\ UNCHANGED <<schema, declared, values, clock>>

\* setSubmissionData(null); setHasAttemptedSubmit(false); handleReset()
HandleDeleteSubmission ==
    /\ form.submissionData # <<>>
    /\ values' = initialValues(schema)
    /\ form' = [seededForm(form) EXCEPT !.submissionData = <<>>]
    /\ op' = "delete"
    /\ arg' = values
    /\ ret' = NoCall
    /\ prev' = NoCall
    /\ UNCHANGED <<schema, declared, clock>>

(***************************************************************************)
(* SpecPreview: the sessions of the schemas with no field, with a text     *)
(* field a, and with a and a second field: a derived field b that copies   *)
(* a, a group of checkboxes c or a single checkbox c.                      *)
(***************************************************************************)
TextFields ==
    {PreviewField("a", "A", "text", required, defaultValue, <<>>, validation,
                  <<>>) :
        required \in BOOLEAN,
        defaultValue \in {<<>>, <<Str("")>>, <<Str("abcde")>>},
        validation \in {<<>>, << <<TooShort>> >>}}
SecondFields ==
    {PreviewField("b", "B", "text", FALSE, <<>>, <<>>, <<>>,
                  DerivedField("b", <<"a">>, ERef("a")).derivedFrom),
     PreviewField("c", "C", "checkbox", TRUE, <<>>, <<"x">>, <<>>, <<>>),
     PreviewField("c", "C", "checkbox", FALSE, <<>>, <<>>, << <<>> >>, <<>>)}
PreviewSchemas ==
    {<<>>} \cup {<<first>> : first \in TextFields}
           \cup {<<first, second>> : first \in TextFields,
                                     second \in SecondFields}

InitPreview ==
    /\ schema \in PreviewSchemas
    /\ declared = schema
    /\ values = EmptyMap
    /\ \E onSubmit \in BOOLEAN : form = InitialForm(onSubmit)
    /\ clock = 0
    /\ op = "init"
    /\ arg = EmptyMap
    /\ ret = NoCall
    /\ prev = NoCall

NextPreview ==
    \/ SeedEffect
    \/ ValidationEffect
    \/ HandleFieldChange
    \/ HandleFieldBlur
    \/ HandleSubmit
    \/ RecordSubmission
    \/ HandleReset
    \/ HandleBackToForm
    \/ HandleDeleteSubmission
SpecPreview == InitPreview /\ [][NextPreview]_vars

\* every change of the value map has had its effects
Settled == form.due = "none"

(***************************************************************************)
(* C26                                                                     *)
(***************************************************************************)
\* C26 as claimed: once a change of the value map has settled, the values
\* are the ones the calculator gives for them and the errors are the
\* fieldErrors that validateForm gives for them.
C26_RecomputedThenValidated ==
    Settled =>
        /\ values = updateDerivedFields(values, schema, clock).values
        /\ form.errors = validateForm(values, schema).fieldErrors

(***************************************************************************)
(* C27                                                                     *)
(***************************************************************************)
\* C27 as claimed: in every state of the session isValid is TRUE exactly
\* when errors has no entry.
C27_ValidIffNoErrors == form.isValid <=> DOMAIN form.errors = {}

(***************************************************************************)
(* ValidationRuleEditor: the rules of field a are the validationRules prop *)
(* and onChange stores the new list in the field; selectedType, ruleValue  *)
(* and customMessage are what the author entered before the click.         *)
(***************************************************************************)
\* the texts of the model that the author enters as ruleValue, and
\* Number(ruleValue) of each
RuleValueTexts == {"", "abc", "0", "-1", "3", "5"}
NumberOf(text) ==
    CASE text \in {"", "0"} -> Num(0)
      [] text = "-1" -> Num(0 - 1)
      [] text = "3" -> Num(3)
      [] text = "5" -> Num(5)
      [] OTHER -> NaN
\* the texts of the model that the author enters as customMessage, and
\* customMessage.trim() of each
CustomMessages == {"", " ", "Custom message"}
Trimmed(text) == IF text \in BlankStrings THEN "" ELSE text
SelectableTypes ==
    {"notEmpty", "minLength", "maxLength", "email", "customPassword"}

getDefaultMessage(type, value) ==
    CASE type = "notEmpty" -> "This field is required"
      [] type = "minLength" ->
            "Must be at least " \o ToString(value[1]) \o " characters long"
      [] type = "maxLength" ->
            "Must be no more than " \o ToString(value[1])
                \o " characters long"
      [] type = "email" -> "Please enter a valid email address"
      [] type = "customPassword" -> "Password must meet the required criteria"
      [] OTHER -> "Invalid input"

needsValue(selectedType) == selectedType \in {"minLength", "maxLength"}
\* !ruleValue || isNaN(Number(ruleValue)) || Number(ruleValue) <= 0
invalidRuleValue(ruleValue) ==
    \/ ruleValue = ""
    \/ NumberOf(ruleValue) = NaN
    \/ NumberOf(ruleValue).n <= 0

\* const newRule = { type: selectedType, value, message }
newRuleOf(selectedType, ruleValue, customMessage) ==
    LET value == IF needsValue(selectedType)
                 THEN <<NumberOf(ruleValue).n>> ELSE <<>>
    IN  ValidationRule(selectedType, value,
            IF Trimmed(customMessage) # "" THEN Trimmed(customMessage)
            ELSE getDefaultMessage(selectedType, value))

\* an editor that finds no rule of the type
existingRuleIndex_NotFound(validationRules, selectedType) == 0

\* validationRules.findIndex(rule => rule.type === selectedType), counted
\* from 1; 0 when there is none
existingRuleIndex(validationRules, selectedType) ==
    IF \E i \in 1..Len(validationRules) :
           validationRules[i].type = selectedType
    THEN CHOOSE i \in 1..Len(validationRules) :
            /\ validationRules[i].type = selectedType
            /\ \A j \in 1..(i - 1) : validationRules[j].type # selectedType
    ELSE 0

\* the list that handleAddRule passes to onChange, at index i or appended
updatedRules(validationRules, i, newRule) ==
    IF i >= 1 THEN [validationRules EXCEPT ![i] = newRule]
    ELSE Append(validationRules, newRule)

\* the list after handleAddRule
handleAddRule(validationRules, selectedType, ruleValue, customMessage) ==
    IF needsValue(selectedType) /\ invalidRuleValue(ruleValue)
    THEN validationRules
    ELSE updatedRules(validationRules,
                      existingRuleIndex(validationRules, selectedType),
                      newRuleOf(selectedType, ruleValue, customMessage))

\* validationRules.filter((_, i) => i !== index)
handleRemoveRule(validationRules, index) ==
    SubSeq(validationRules, 1, index - 1)
        \o SubSeq(validationRules, index + 1, Len(validationRules))

HandleAddRule ==
    /\ \E selectedType \in SelectableTypes :
       \E ruleValue \in (IF needsValue(selectedType) THEN RuleValueTexts
                         ELSE {""}) :
       \E customMessage \in CustomMessages :
          /\ \/ Len(rulesOf(schema[1])) < MaxRules
             \/ existingRuleIndex(rulesOf(schema[1]), selectedType) >= 1
          /\ schema' = [schema EXCEPT ![1].validation =
                           <<handleAddRule(rulesOf(schema[1]), selectedType,
                                           ruleValue, customMessage)>>]
          /\ arg' = [selectedType |-> selectedType, ruleValue |-> ruleValue,
                     customMessage |-> customMessage]
    /\ declared' = schema'
    /\ op' = "addRule"
    /\ prev' = rulesOf(schema[1])
    /\ ret' = NoCall
    /\ UNCHANGED <<values, clock, form>>

HandleRemoveRule ==
    /\ \E index \in 1..Len(rulesOf(schema[1])) :
          /\ schema' = [schema EXCEPT ![1].validation =
                           <<handleRemoveRule(rulesOf(schema[1]), index)>>]
          /\ arg' = [index |-> index]
    /\ declared' = schema'
    /\ op' = "removeRule"
    /\ prev' = rulesOf(schema[1])
    /\ ret' = NoCall
    /\ UNCHANGED <<values, clock, form>>

\* no two rules of the list have one type
AtMostOnePerType(rules) ==
    \A i, j \in 1..Len(rules) : rules[i].type = rules[j].type => i = j

\* the editor opens on a field with no rule or with rules of different types
InitEditor ==
    /\ \E rules \in {<<>>, <<OwnNotEmpty>>, <<TooShort, NoEmail>>,
                     <<TooLong, WeakPassword, TooShort>>} :
          schema = <<FormField("a", "A", FALSE, <<rules>>, <<>>)>>
    /\ declared = schema
    /\ form = NoForm
    /\ values = EmptyMap
    /\ clock = 0
    /\ op = "init"
    /\ arg = EmptyMap
    /\ ret = NoCall
    /\ prev = NoCall

NextEditor == HandleAddRule \/ HandleRemoveRule
SpecEditor == InitEditor /\ [][NextEditor]_vars

(***************************************************************************)
(* C28                                                                     *)
(***************************************************************************)
AddDone == op = "addRule"
\* the list before the last click and after it
RulesBefore == prev
RulesAfter == rulesOf(schema[1])
\* the positions of the list before the click that hold the selected type
PositionsOfType == {i \in 1..Len(RulesBefore) :
                       RulesBefore[i].type = arg.selectedType}
\* the author entered a positive number
PositiveBound == arg.ruleValue \in {"3", "5"}
\* the message the rule gets
EnteredMessage ==
    IF arg.customMessage = "Custom message" THEN "Custom message"
    ELSE CASE arg.selectedType = "notEmpty" -> "This field is required"
           [] arg.selectedType = "minLength" ->
                 "Must be at least " \o arg.ruleValue \o " characters long"
           [] arg.selectedType = "maxLength" ->
                 "Must be no more than " \o arg.ruleValue
                     \o " characters long"
           [] arg.selectedType = "email" ->
                 "Please enter a valid email address"
           [] OTHER -> "Password must meet the required criteria"
\* the rule at position i after the click is the one the author entered
IsEnteredRule(i) ==
    /\ RulesAfter[i].type = arg.selectedType
    /\ RulesAfter[i].message = EnteredMessage
    /\ needsValue(arg.selectedType) =>
          RulesAfter[i].value = <<NumberOf(arg.ruleValue).n>>

\* C28: the list has at most one rule of each type after any sequence of
\* add and remove clicks; adding a type that is present replaces that rule
\* at its position and leaves the length and the other rules alone, adding
\* a type that is not present appends the rule, and adding a minLength or
\* maxLength rule without a positive number changes nothing.
C28_OneRulePerType ==
    /\ AtMostOnePerType(RulesAfter)
    /\ AddDone =>
          IF needsValue(arg.selectedType) /\ ~PositiveBound
          THEN RulesAfter = RulesBefore
          ELSE IF PositionsOfType # {}
          THEN /\ Len(RulesAfter) = Len(RulesBefore)
               /\ \A i \in 1..Len(RulesBefore) :
                     IF i \in PositionsOfType THEN IsEnteredRule(i)
                     ELSE RulesAfter[i] = RulesBefore[i]
          ELSE /\ Len(RulesAfter) = Len(RulesBefore) + 1
               /\ SubSeq(RulesAfter, 1, Len(RulesBefore)) = RulesBefore
               /\ IsEnteredRule(Len(RulesAfter))

\* a minLength rule in the middle of three rules is replaced in place by
\* the one entered last
C28_Witness ==
    /\ AddDone
    /\ Len(RulesBefore) = 3
    /\ RulesBefore[2].type = "minLength"
    /\ arg.selectedType = "minLength"
    /\ arg.ruleValue = "5"
    /\ RulesBefore[2].value = <<3>>
    /\ Len(RulesAfter) = 3
    /\ RulesAfter[2].value = <<5>>

(***************************************************************************)
(* C29                                                                     *)
(***************************************************************************)
\* C29 as claimed: a field of the session that is not required, declares no
\* notEmpty rule and holds the empty string it was seeded with has no
\* entry in errors.
C29_OptionalEmptyFieldPasses ==
    Settled =>
        \A i \in 1..Len(declared) :
            ( /\ ~declared[i].required
              /\ ~hasNotEmptyRule(rulesOf(declared[i]))
              /\ declared[i].id \in DOMAIN values
              /\ values[declared[i].id] = Str("") )
                => declared[i].id \notin DOMAIN form.errors

(***************************************************************************)
(* C30                                                                     *)
(***************************************************************************)
SubmitDone == op = "submit"
\* the values that validateForm finds no error in
ValidValues(formValues) == validateForm(formValues, schema).isValid

\* C30: a submit event hands values to onSubmit, or starts a submission,
\* only from a state with isValid TRUE; every value map that was handed
\* over, waits to be recorded or was recorded is one that validateForm finds
\* no error in; and a submit event in a state with isValid FALSE marks
\* every field as touched and changes neither values nor errors.
C30_SubmitOnlyWhenValid ==
    /\ \A i \in 1..Len(form.handed) : ValidValues(form.handed[i])
    /\ \A i \in 1..Len(form.submissionData) :
          ValidValues(form.submissionData[i])
    /\ \A formValues \in form.waiting : ValidValues(formValues)
    /\ SubmitDone =>
          /\ form.touched = [id \in FieldIdsOf(schema) |-> TRUE]
          /\ values = prev.values
          /\ form.errors = prev.form.errors
          /\ form.isValid = prev.form.isValid
          /\ IF prev.form.isValid
             THEN IF form.onSubmit
                  THEN form.handed = <<values>> /\ form.waiting = {}
                  ELSE form.waiting = prev.form.waiting \cup {values}
             ELSE /\ form.handed = prev.form.handed
                  /\ form.waiting = prev.form.waiting
                  /\ form.submissionData = prev.form.submissionData

\* the values of a form with a required field that holds "abcde" are
\* handed to onSubmit
C30_Witness ==
    /\ SubmitDone
    /\ form.onSubmit
    /\ Len(declared) > 0
    /\ declared[1].required
    /\ "a" \in DOMAIN values
    /\ values["a"] = Str("abcde")
    /\ form.handed = <<values>>

====
